---------------------------- MODULE Spec2Model ----------------------------
(***************************************************************************)
(* A model of the AST factory (source/libs/parser/src/astCreateFuncs.c)    *)
(* and of the generic traversal / rewrite engine                           *)
(* (source/libs/nodes/src/nodesTraverseFuncs.c).                           *)
(*                                                                         *)
(* Objects (SNode and SNodeList) live in `heap`, a sequence of records;    *)
(* an object's address is its index, and the null pointer is 0.            *)
(***************************************************************************)
EXTENDS Integers, Sequences, FiniteSets, TLC

VARIABLES
  heap,     \* the allocated objects, by address
  valid,    \* SAstCreateContext.valid
  ret,      \* what the last call handed back to its caller
  call,     \* the name of the last call
  failed,   \* history: some factory call of this build has failed
  ncalls,   \* history: number of calls made so far
  noom,     \* history: number of allocations that failed so far
  held,     \* the parser's value stack: what the calls returned, not yet passed on
  nrepl,    \* history: number of nodes the rewriters have put in place of others
  start,    \* the node, list or statement the last traversal was started on
  clause,   \* the ESqlClause the last select traversal was started with
  order,    \* the ETraversalOrder of the last traversal
  log,      \* the callback invocations of the last traversal, in order
  res,      \* the EDealRes the engine computed for the last traversal
  h0,       \* the heap when the last traversal was started
  tSmaWrapper,     \* the STSmaWrapper the caller has constructed
  bufLen,          \* what tEncodeTSmaWrapper returned for a null buffer
  buf,             \* the bytes tEncodeTSmaWrapper has written to the buffer
  len,             \* what tEncodeTSmaWrapper returned for the buffer
  dstTSmaWrapper,  \* the STSmaWrapper tDecodeTSmaWrapper has filled
  pMeta,           \* the metadata store: its SMA database and its index by table uid
  saved,           \* history: the definitions saved and not removed since
  stack,           \* the frames of the engine's calls that have not returned yet
  rewriter,        \* the rewriter the caller has handed to the traversal
  pc,              \* where the thread of a traversal taken step by step is
  meta_,           \* MockCatalogServiceImpl::meta_: the tables, by database and name
  index_,          \* MockCatalogServiceImpl::index_: the SMA indexes, by table name
  id_,             \* MockCatalogServiceImpl::id_: the next uid
  builder_,        \* MockCatalogServiceImpl::builder_: the builder of the last table
  pSName,          \* the SName the last catalogGetTableMeta was asked for
  pTableMeta,      \* the caller's STableMeta*, the output of catalogGetTableMeta
  code,            \* how the last call of the catalog service ended
  handed           \* history: the uids stored by the calls, in the order of the calls

\* the AST under construction or traversal
astVars == <<heap, valid, ret, call, failed, ncalls, noom, held, nrepl, start, clause, order, log, res, h0>>

\* the materialized-aggregate index definitions and their store
smaVars == <<tSmaWrapper, bufLen, buf, len, dstTSmaWrapper, pMeta, saved>>

\* a traversal taken step by step
stepVars == <<stack, rewriter, pc>>

\* the mock catalog service
catVars == <<meta_, index_, id_, builder_, pSName, pTableMeta, code, handed>>

vars == <<astVars, smaVars, stepVars, catVars>>

(***************************************************************************)
(* Bounds of the model.                                                    *)
(***************************************************************************)
\* factory calls per build
MaxCalls == 5
\* allocations that fail per build
MaxOom == 1
\* nodes a rewriter puts in place of others
MaxRepl == 1
\* times a visitor or rewriter answers ERROR or END during one select traversal
MaxStops == 1
\* objects of a sample tree handed to the traversal engine
MaxNodes == 5
\* elements of a sample list
MaxLen == 2

NULL == 0

\* what a call "returns" when it does not return: it went through a null
\* pointer and the process was stopped
Fault == -2

\* a token pointer that is null
NoToken == -1

(***************************************************************************)
(* Identifier limits; the header that sets them is not part of the         *)
(* sources at hand, only their use in the check functions is.              *)
(***************************************************************************)
TSDB_DB_NAME_LEN == 65
TSDB_TABLE_NAME_LEN == 193
TSDB_COL_NAME_LEN == 65

(***************************************************************************)
(* Objects.  f holds the pointer fields of a node in declaration order,    *)
(* elems the cells of an SNodeList.                                        *)
(*   OPERATOR         f = <<pLeft, pRight>>                                 *)
(*   LOGIC_CONDITION  f = <<pParameterList>>                                *)
(*   FUNCTION         f = <<pParameterList>>                                *)
(*   GROUPING_SET     f = <<pParameterList>>                                *)
(*   NODE_LIST        f = <<pNodeList>>                                     *)
(*   JOIN_TABLE       f = <<pLeft, pRight, pOnCond>>                        *)
(*   ORDER_BY_EXPR    f = <<pExpr>>                                         *)
(*   STATE_WINDOW     f = <<pExpr, pCol>>                                   *)
(*   SESSION_WINDOW   f = <<pCol, pGap>>                                    *)
(*   INTERVAL_WINDOW  f = <<pInterval, pOffset, pSliding, pFill, pCol>>     *)
(*   FILL             f = <<pValues>>                                       *)
(*   RAW_EXPR         f = <<pNode>>                                         *)
(*   TARGET           f = <<pExpr>>                                         *)
(*   TEMP_TABLE       f = <<pSubquery>>                                     *)
(*   SELECT_STMT      f = <<pFromTable, pWhere, pPartitionByList, pWindow,  *)
(*                          pGroupByList, pHaving, pOrderByList,            *)
(*                          pProjectionList, pLimit, pSlimit>>              *)
(***************************************************************************)
Obj(kind, op, f) ==
  [kind |-> kind, op |-> op, f |-> f, elems |-> <<>>,
   isStar |-> FALSE, isDistinct |-> FALSE, aliasName |-> ""]

\* nodesMakeNode: a zero-initialised node of the given kind
nodesMakeNode(kind, nfields) ==
  Obj(kind, "", [i \in 1..nfields |-> NULL])

\* nodesMakeList: an empty list
nodesMakeList ==
  Obj("LIST", "", <<>>)

\* nodesListAppend(pList, pNode) on heap h: the heap afterwards
nodesListAppend(h, pList, pNode) ==
  IF pList = NULL \/ pNode = NULL
    THEN h
    ELSE [h EXCEPT ![pList].elems = Append(@, pNode)]

\* what nodesListAppend returns
nodesListAppendRet(pList, pNode) ==
  IF pList = NULL \/ pNode = NULL THEN NULL ELSE pList

\* every pointer slot of heap h: a field of a node or a cell of a list
Slots(h) ==
  UNION {{[o |-> p, k |-> "f", i |-> i] : i \in 1..Len(h[p].f)} \cup
         {[o |-> p, k |-> "e", i |-> i] : i \in 1..Len(h[p].elems)}
           : p \in 1..Len(h)}

\* the pointer held by slot s
Deref(h, s) ==
  IF s.k = "f" THEN h[s.o].f[s.i] ELSE h[s.o].elems[s.i]

\* the slots of heap h that point to object n
Refs(h, n) ==
  {s \in Slots(h) : Deref(h, s) = n}

(***************************************************************************)
(* The AST factory.  A build is the record                                 *)
(*   [heap, valid, ret, failed]                                            *)
(* where ret is the value the call returns and failed records, as          *)
(* history, that some call failed (an allocation failed, a name was too    *)
(* long, or null came back where an object was asked for).  The ok*        *)
(* parameters say whether the allocation the call makes succeeds.          *)
(***************************************************************************)
\* CHECK_OUT_OF_MEM(p) taken with p null
OutOfMem(c) ==
  [c EXCEPT !.valid = FALSE, !.ret = NULL, !.failed = TRUE]

\* a call returning the freshly allocated object o
Alloc(c, o) ==
  [c EXCEPT !.heap = Append(@, o), !.ret = Len(c.heap) + 1]

\* a check function that lets a name of exactly the limit pass
checkNameMutant(v, n, limit) ==
  IF n = NoToken
    THEN [valid |-> v, ret |-> TRUE]
    ELSE [valid |-> n <= limit, ret |-> n <= limit]

\* a check function on a token of length n (NoToken: a null token pointer):
\* the valid flag afterwards and the value returned
checkName(v, n, limit) ==
  IF n = NoToken
    THEN [valid |-> v, ret |-> TRUE]
    ELSE [valid |-> n < limit, ret |-> n < limit]

checkDbName(v, pDbName) == checkName(v, pDbName, TSDB_DB_NAME_LEN)

checkTableName(v, pTableName) == checkName(v, pTableName, TSDB_TABLE_NAME_LEN)

checkColumnName(v, pColumnName) == checkName(v, pColumnName, TSDB_COL_NAME_LEN)

createNodeList(c, pNode, okList) ==
  IF ~okList THEN OutOfMem(c)
  ELSE LET c1 == Alloc(c, nodesMakeList)
       IN  [c1 EXCEPT !.heap = nodesListAppend(c1.heap, c1.ret, pNode),
                      !.ret = nodesListAppendRet(c1.ret, pNode),
                      !.failed = @ \/ pNode = NULL]

addNodeToList(c, pList, pNode) ==
  [c EXCEPT !.heap = nodesListAppend(c.heap, pList, pNode),
            !.ret = nodesListAppendRet(pList, pNode),
            !.failed = @ \/ pList = NULL \/ pNode = NULL]

\* a createColumnNode that allocates the node first and checks the names after
createColumnNodeMutant(c, pTableName, pColumnName, ok) ==
  IF ~ok THEN OutOfMem(c)
  ELSE LET c1 == Alloc(c, nodesMakeNode("COLUMN", 0))
           k1 == checkTableName(c.valid, pTableName)
           k2 == checkColumnName(k1.valid, pColumnName)
       IN  IF ~k1.ret THEN [c1 EXCEPT !.valid = k1.valid, !.ret = NULL, !.failed = TRUE]
           ELSE IF ~k2.ret
                  THEN [c1 EXCEPT !.valid = k2.valid, !.ret = NULL, !.failed = TRUE]
           ELSE [c1 EXCEPT !.valid = k2.valid]

createColumnNode(c, pTableName, pColumnName, ok) ==
  LET k1 == checkTableName(c.valid, pTableName)
      k2 == checkColumnName(k1.valid, pColumnName)
  IN  IF ~k1.ret THEN [c EXCEPT !.valid = k1.valid, !.ret = NULL, !.failed = TRUE]
      ELSE IF ~k2.ret THEN [c EXCEPT !.valid = k2.valid, !.ret = NULL, !.failed = TRUE]
      ELSE IF ~ok THEN OutOfMem([c EXCEPT !.valid = k2.valid])
      ELSE Alloc([c EXCEPT !.valid = k2.valid], nodesMakeNode("COLUMN", 0))

createValueNode(c, ok) ==
  IF ~ok THEN OutOfMem(c) ELSE Alloc(c, nodesMakeNode("VALUE", 0))

\* a createLogicConditionNode that stores both operands whatever they are
createLogicConditionNodeMutant(c, type, pParam1, pParam2, ok, okList) ==
  IF ~ok THEN OutOfMem(c)
  ELSE LET c1   == Alloc(c, [nodesMakeNode("LOGIC_CONDITION", 1) EXCEPT !.op = type])
           cond == c1.ret
           c2   == IF okList
                     THEN Alloc(c1, [nodesMakeList EXCEPT !.elems = <<pParam1, pParam2>>])
                     ELSE [c1 EXCEPT !.ret = NULL, !.failed = TRUE]
       IN  [c2 EXCEPT !.heap[cond].f[1] = c2.ret, !.ret = cond]

createLogicConditionNode(c, type, pParam1, pParam2, ok, okList) ==
  IF ~ok THEN OutOfMem(c)
  ELSE LET c1   == Alloc(c, [nodesMakeNode("LOGIC_CONDITION", 1) EXCEPT !.op = type])
           cond == c1.ret
           c2   == IF okList THEN Alloc(c1, nodesMakeList)
                             ELSE [c1 EXCEPT !.ret = NULL, !.failed = TRUE]
           list == c2.ret
           h1   == [c2.heap EXCEPT ![cond].f[1] = list]
           h2   == nodesListAppend(h1, list, pParam1)
           h3   == nodesListAppend(h2, list, pParam2)
       IN  [c2 EXCEPT !.heap = h3, !.ret = cond]

createOperatorNode(c, type, pLeft, pRight, ok) ==
  IF ~ok THEN OutOfMem(c)
  ELSE Alloc(c, [nodesMakeNode("OPERATOR", 2) EXCEPT
                   !.op = type, !.f = <<pLeft, pRight>>])

\* variants of the two BETWEEN builders: operands the other way round, and the
\* other connective
createBetweenAndMutant(c, pExpr, pLeft, pRight, ok1, ok2, ok, okList) ==
  LET c1 == createOperatorNode(c, "OP_TYPE_GREATER_EQUAL", pExpr, pLeft, ok1)
      c2 == createOperatorNode(c1, "OP_TYPE_LOWER_EQUAL", pExpr, pRight, ok2)
  IN  createLogicConditionNode(c2, "LOGIC_COND_TYPE_AND", c2.ret, c1.ret, ok, okList)

createNotBetweenAndMutant(c, pExpr, pLeft, pRight, ok1, ok2, ok, okList) ==
  LET c1 == createOperatorNode(c, "OP_TYPE_LOWER_THAN", pExpr, pLeft, ok1)
      c2 == createOperatorNode(c1, "OP_TYPE_GREATER_THAN", pExpr, pRight, ok2)
  IN  createLogicConditionNode(c2, "LOGIC_COND_TYPE_AND", c1.ret, c2.ret, ok, okList)

createBetweenAnd(c, pExpr, pLeft, pRight, ok1, ok2, ok, okList) ==
  LET c1 == createOperatorNode(c, "OP_TYPE_GREATER_EQUAL", pExpr, pLeft, ok1)
      c2 == createOperatorNode(c1, "OP_TYPE_LOWER_EQUAL", pExpr, pRight, ok2)
  IN  createLogicConditionNode(c2, "LOGIC_COND_TYPE_AND", c1.ret, c2.ret, ok, okList)

createNotBetweenAnd(c, pExpr, pLeft, pRight, ok1, ok2, ok, okList) ==
  LET c1 == createOperatorNode(c, "OP_TYPE_LOWER_THAN", pExpr, pLeft, ok1)
      c2 == createOperatorNode(c1, "OP_TYPE_GREATER_THAN", pExpr, pRight, ok2)
  IN  createLogicConditionNode(c2, "LOGIC_COND_TYPE_OR", c1.ret, c2.ret, ok, okList)

createRealTableNode(c, pDbName, pTableName, ok) ==
  LET k1 == checkDbName(c.valid, pDbName)
      k2 == checkTableName(k1.valid, pTableName)
  IN  IF ~k1.ret THEN [c EXCEPT !.valid = k1.valid, !.ret = NULL, !.failed = TRUE]
      ELSE IF ~k2.ret THEN [c EXCEPT !.valid = k2.valid, !.ret = NULL, !.failed = TRUE]
      ELSE IF ~ok THEN OutOfMem([c EXCEPT !.valid = k2.valid])
      ELSE Alloc([c EXCEPT !.valid = k2.valid], nodesMakeNode("REAL_TABLE", 0))

\* a createSelectStmt that takes an empty projection list for an absent one
createSelectStmtMutant(c, isDistinct, pProjectionList, pTable, ok) ==
  IF ~ok THEN OutOfMem(c)
  ELSE Alloc(c, [nodesMakeNode("SELECT_STMT", 10) EXCEPT
                   !.isDistinct = isDistinct,
                   !.isStar = IF pProjectionList = NULL THEN TRUE
                              ELSE c.heap[pProjectionList].elems = <<>>,
                   !.f[8] = pProjectionList,
                   !.f[1] = pTable])

createSelectStmt(c, isDistinct, pProjectionList, pTable, ok) ==
  IF ~ok THEN OutOfMem(c)
  ELSE Alloc(c, [nodesMakeNode("SELECT_STMT", 10) EXCEPT
                   !.isDistinct = isDistinct,
                   !.isStar = (pProjectionList = NULL),
                   !.f[8] = pProjectionList,
                   !.f[1] = pTable])

createLimitNode(c, ok) ==
  IF ~ok THEN OutOfMem(c) ELSE Alloc(c, nodesMakeNode("LIMIT", 0))

createStateWindowNode(c, pCol, ok) ==
  IF ~ok THEN OutOfMem(c)
  ELSE Alloc(c, [nodesMakeNode("STATE_WINDOW", 2) EXCEPT !.f[2] = pCol])

\* a read or write through a null pointer: nodeType(pStmt) with pStmt null,
\* strncpy into the aliasName of a null pNode.  The behaviour is undefined;
\* the access either stops the process, or goes unnoticed (the read yields a
\* type that is not QUERY_NODE_SELECT_STMT, the write lands in memory no
\* object of the build occupies) and the call returns the null it was given.
ThroughNull(c, trapped) ==
  IF trapped THEN [c EXCEPT !.ret = Fault, !.failed = TRUE]
             ELSE [c EXCEPT !.ret = NULL]

setProjectionAlias(c, pNode, trapped) ==
  IF pNode = NULL THEN ThroughNull(c, trapped)
  ELSE [c EXCEPT !.heap[pNode].aliasName = "alias", !.ret = pNode]

\* a clause-attaching function that also clears isStar
addClauseMutant(c, pStmt, field, pClause, trapped) ==
  IF pStmt = NULL THEN ThroughNull(c, trapped)
  ELSE IF c.heap[pStmt].kind = "SELECT_STMT"
         THEN [c EXCEPT !.heap[pStmt].f[field] = pClause,
                        !.heap[pStmt].isStar = FALSE, !.ret = pStmt]
         ELSE [c EXCEPT !.ret = pStmt]

\* the common body of the clause-attaching functions: field is the position
\* of the clause they assign among the pointer fields of SSelectStmt
addClause(c, pStmt, field, pClause, trapped) ==
  IF pStmt = NULL THEN ThroughNull(c, trapped)
  ELSE IF c.heap[pStmt].kind = "SELECT_STMT"
         THEN [c EXCEPT !.heap[pStmt].f[field] = pClause, !.ret = pStmt]
         ELSE [c EXCEPT !.ret = pStmt]

addWhereClause(c, pStmt, pWhere, trapped) ==
  addClause(c, pStmt, 2, pWhere, trapped)

addPartitionByClause(c, pStmt, pPartitionByList, trapped) ==
  addClause(c, pStmt, 3, pPartitionByList, trapped)

addWindowClauseClause(c, pStmt, pWindow, trapped) ==
  addClause(c, pStmt, 4, pWindow, trapped)

addGroupByClause(c, pStmt, pGroupByList, trapped) ==
  addClause(c, pStmt, 5, pGroupByList, trapped)

addHavingClause(c, pStmt, pHaving, trapped) ==
  addClause(c, pStmt, 6, pHaving, trapped)

addOrderByClause(c, pStmt, pOrderByList, trapped) ==
  addClause(c, pStmt, 7, pOrderByList, trapped)

addSlimitClause(c, pStmt, pSlimit, trapped) ==
  addClause(c, pStmt, 10, pSlimit, trapped)

addLimitClause(c, pStmt, pLimit, trapped) ==
  addClause(c, pStmt, 9, pLimit, trapped)

(***************************************************************************)
(* The build.  The factory is called from the reductions of a bottom-up    *)
(* parser: each call takes its object arguments from the top of the        *)
(* parser's value stack, in the order they were produced, and its result   *)
(* (null after a failure) is pushed in their place.  No reduction checks   *)
(* the valid flag; it is read once, when the statement is complete.        *)
(***************************************************************************)
Cxt == [heap |-> heap, valid |-> valid, ret |-> ret, failed |-> failed]

\* a value of the parser's stack: a pointer and the grammar symbol it stands for
Val(p, sort) == [p |-> p, sort |-> sort]

\* the k-th value from the top of the stack (1 is the top)
Top(k) == held[Len(held) + 1 - k]

\* the top k values of the stack stand for these symbols, bottom first
Has(sorts) ==
  /\ Len(held) >= Len(sorts)
  /\ \A k \in 1..Len(sorts) : Top(Len(sorts) + 1 - k).sort = sorts[k]

TableTokens == {TSDB_TABLE_NAME_LEN - 1, TSDB_TABLE_NAME_LEN}

ColumnTokens == {TSDB_COL_NAME_LEN - 1, TSDB_COL_NAME_LEN}

DbTokens == {TSDB_DB_NAME_LEN - 1, TSDB_DB_NAME_LEN}

\* the outcomes of n allocations of which at most the remaining budget fail
Allocs(n) ==
  {a \in [1..n -> BOOLEAN] :
     Cardinality({i \in 1..n : ~a[i]}) + noom <= MaxOom}

NoStart == [p |-> NULL, slot |-> [o |-> NULL, k |-> "none", i |-> 0]]

\* no call has returned a length yet
NoLen == -1

\* a wrapper that nothing has been put into: STSmaWrapper x = {0}
ZeroWrapper == [number |-> 0, tSma |-> <<>>]

\* a store that holds nothing
EmptyMeta == [smaDB |-> <<>>, smaIdx |-> <<>>]

\* no traversal is taken step by step
\* no STableMeta: a null STableMeta*, a null shared_ptr
NoTableMeta == [null |-> TRUE]

\* no builder yet
NoBuilder == [db |-> "", tbname |-> "", colId_ |-> 0, rowsize_ |-> 0]

\* the catalog service before its construction
InitCatVars ==
  /\ meta_ = <<>>
  /\ index_ = <<>>
  /\ id_ = 0
  /\ builder_ = NoBuilder
  /\ pSName = [dbname |-> "", tname |-> ""]
  /\ pTableMeta = NoTableMeta
  /\ code = "none"
  /\ handed = <<>>

InitStepVars ==
  /\ stack = <<>>
  /\ rewriter = "none"
  /\ pc = "idle"

\* no index definition is at hand
InitSmaVars ==
  /\ tSmaWrapper = ZeroWrapper
  /\ bufLen = NoLen
  /\ buf = <<>>
  /\ len = NoLen
  /\ dstTSmaWrapper = ZeroWrapper
  /\ pMeta = EmptyMeta
  /\ saved = {}

InitWalkVars ==
  /\ start = NoStart
  /\ clause = "none"
  /\ order = "none"
  /\ log = <<>>
  /\ res = "none"
  /\ h0 = <<>>

Init ==
  /\ heap = <<>>
  /\ valid = TRUE
  /\ ret = NULL
  /\ call = "none"
  /\ failed = FALSE
  /\ ncalls = 0
  /\ noom = 0
  /\ held = <<>>
  /\ nrepl = 0
  /\ InitWalkVars
  /\ InitSmaVars
  /\ InitStepVars
  /\ InitCatVars

\* the factory call `name`, which took nargs values from the stack and made
\* the allocations a, ends as c and pushes a value for the symbol sort
Returns(name, c, nargs, sort, a) ==
  /\ ncalls < MaxCalls
  /\ ret # Fault
  /\ heap' = c.heap
  /\ valid' = c.valid
  /\ ret' = c.ret
  /\ failed' = c.failed
  /\ call' = name
  /\ ncalls' = ncalls + 1
  /\ noom' = noom + Cardinality({i \in DOMAIN a : ~a[i]})
  /\ held' = Append(SubSeq(held, 1, Len(held) - nargs), Val(c.ret, sort))
  /\ UNCHANGED <<nrepl, start, clause, order, log, res, h0, smaVars, stepVars, catVars>>

CreateNodeList ==
  /\ Has(<<"expr">>)
  /\ \E a \in Allocs(1) :
       Returns("createNodeList", createNodeList(Cxt, Top(1).p, a[1]), 1, "list", a)

AddNodeToList ==
  /\ Has(<<"list", "expr">>)
  /\ Returns("addNodeToList", addNodeToList(Cxt, Top(2).p, Top(1).p), 2, "list", <<>>)

\* the names pass the checks of createColumnNode, of createRealTableNode: only
\* then is the allocation of the call made, and only then can it fail
ColumnNamesPass(pTableName, pColumnName) ==
  /\ checkTableName(valid, pTableName).ret
  /\ checkColumnName(valid, pColumnName).ret

TableNamesPass(pDbName, pTableName) ==
  /\ checkDbName(valid, pDbName).ret
  /\ checkTableName(valid, pTableName).ret

CreateColumnNode ==
  \E pTableName \in TableTokens \cup {NoToken}, pColumnName \in ColumnTokens,
     a \in Allocs(1) :
    /\ a[1] \/ ColumnNamesPass(pTableName, pColumnName)
    /\ Returns("createColumnNode",
               createColumnNode(Cxt, pTableName, pColumnName, a[1]), 0, "expr", a)

CreateValueNode ==
  \E a \in Allocs(1) :
    Returns("createValueNode", createValueNode(Cxt, a[1]), 0, "expr", a)

CreateLogicConditionNode ==
  /\ Has(<<"expr", "expr">>)
  /\ \E type \in {"LOGIC_COND_TYPE_AND", "LOGIC_COND_TYPE_OR"}, a \in Allocs(2) :
       Returns("createLogicConditionNode",
               createLogicConditionNode(Cxt, type, Top(2).p, Top(1).p, a[1], a[2]),
               2, "expr", a)

CreateOperatorNode ==
  /\ Has(<<"expr", "expr">>)
  /\ \E type \in {"OP_TYPE_ADD"}, a \in Allocs(1) :
       Returns("createOperatorNode",
               createOperatorNode(Cxt, type, Top(2).p, Top(1).p, a[1]), 2, "expr", a)

CreateBetweenAnd ==
  /\ Has(<<"expr", "expr", "expr">>)
  /\ \E a \in Allocs(4) :
       Returns("createBetweenAnd",
               createBetweenAnd(Cxt, Top(3).p, Top(2).p, Top(1).p,
                                a[1], a[2], a[3], a[4]), 3, "expr", a)

CreateNotBetweenAnd ==
  /\ Has(<<"expr", "expr", "expr">>)
  /\ \E a \in Allocs(4) :
       Returns("createNotBetweenAnd",
               createNotBetweenAnd(Cxt, Top(3).p, Top(2).p, Top(1).p,
                                   a[1], a[2], a[3], a[4]), 3, "expr", a)

CreateRealTableNode ==
  \E pDbName \in DbTokens \cup {NoToken}, pTableName \in TableTokens,
     a \in Allocs(1) :
    /\ a[1] \/ TableNamesPass(pDbName, pTableName)
    /\ Returns("createRealTableNode",
               createRealTableNode(Cxt, pDbName, pTableName, a[1]), 0, "table", a)

\* SELECT [DISTINCT] list FROM table, and SELECT [DISTINCT] * FROM table
CreateSelectStmt ==
  \E isDistinct \in BOOLEAN, a \in Allocs(1) :
    \/ /\ Has(<<"list", "table">>)
       /\ Returns("createSelectStmt",
                  createSelectStmt(Cxt, isDistinct, Top(2).p, Top(1).p, a[1]),
                  2, "stmt", a)
    \/ /\ Has(<<"table">>)
       /\ Returns("createSelectStmt",
                  createSelectStmt(Cxt, isDistinct, NULL, Top(1).p, a[1]),
                  1, "stmt", a)

\* the clauses that follow a query: LIMIT and a window over a column
CreateLimitNode ==
  /\ Has(<<"stmt">>)
  /\ \E a \in Allocs(1) :
       Returns("createLimitNode", createLimitNode(Cxt, a[1]), 0, "limit", a)

CreateStateWindowNode ==
  /\ Has(<<"stmt", "expr">>)
  /\ \E a \in Allocs(1) :
       Returns("createStateWindowNode",
               createStateWindowNode(Cxt, Top(1).p, a[1]), 1, "window", a)

\* whether an access through null, if the call makes one, stops the process
Trapped == BOOLEAN

SetProjectionAlias ==
  /\ Has(<<"expr">>)
  /\ \E t \in Trapped :
       Returns("setProjectionAlias", setProjectionAlias(Cxt, Top(1).p, t), 1, "expr", <<>>)

AddWhereClause ==
  /\ Has(<<"stmt", "expr">>)
  /\ \E t \in Trapped :
       Returns("addWhereClause", addWhereClause(Cxt, Top(2).p, Top(1).p, t), 2, "stmt", <<>>)

AddPartitionByClause ==
  /\ Has(<<"stmt", "list">>)
  /\ \E t \in Trapped :
       Returns("addPartitionByClause",
               addPartitionByClause(Cxt, Top(2).p, Top(1).p, t), 2, "stmt", <<>>)

AddWindowClauseClause ==
  /\ Has(<<"stmt", "window">>)
  /\ \E t \in Trapped :
       Returns("addWindowClauseClause",
               addWindowClauseClause(Cxt, Top(2).p, Top(1).p, t), 2, "stmt", <<>>)

AddGroupByClause ==
  /\ Has(<<"stmt", "list">>)
  /\ \E t \in Trapped :
       Returns("addGroupByClause",
               addGroupByClause(Cxt, Top(2).p, Top(1).p, t), 2, "stmt", <<>>)

AddHavingClause ==
  /\ Has(<<"stmt", "expr">>)
  /\ \E t \in Trapped :
       Returns("addHavingClause", addHavingClause(Cxt, Top(2).p, Top(1).p, t), 2, "stmt", <<>>)

AddOrderByClause ==
  /\ Has(<<"stmt", "list">>)
  /\ \E t \in Trapped :
       Returns("addOrderByClause",
               addOrderByClause(Cxt, Top(2).p, Top(1).p, t), 2, "stmt", <<>>)

AddSlimitClause ==
  /\ Has(<<"stmt", "limit">>)
  /\ \E t \in Trapped :
       Returns("addSlimitClause", addSlimitClause(Cxt, Top(2).p, Top(1).p, t), 2, "stmt", <<>>)

AddLimitClause ==
  /\ Has(<<"stmt", "limit">>)
  /\ \E t \in Trapped :
       Returns("addLimitClause", addLimitClause(Cxt, Top(2).p, Top(1).p, t), 2, "stmt", <<>>)

Next ==
  \/ CreateNodeList
  \/ AddNodeToList
  \/ CreateColumnNode
  \/ CreateValueNode
  \/ CreateLogicConditionNode
  \/ CreateOperatorNode
  \/ CreateBetweenAnd
  \/ CreateNotBetweenAnd
  \/ CreateRealTableNode
  \/ CreateSelectStmt
  \/ CreateLimitNode
  \/ CreateStateWindowNode
  \/ SetProjectionAlias
  \/ AddWhereClause
  \/ AddPartitionByClause
  \/ AddWindowClauseClause
  \/ AddGroupByClause
  \/ AddHavingClause
  \/ AddOrderByClause
  \/ AddSlimitClause
  \/ AddLimitClause

Spec == Init /\ [][Next]_vars

(***************************************************************************)
(* The traversal engine.  A visitor is a callback of the caller: whatever  *)
(* it answers is one of the three EDealRes values, so each invocation is a *)
(* choice among them, and a traversal is the set of runs it can take.  A   *)
(* run is the record                                                       *)
(*   [h, log, res, budget, stops]                                          *)
(* h: the heap; log: the callback invocations so far; res: the EDealRes    *)
(* last computed; budget: replacements the rewriter may still make;        *)
(* stops: times the callback may still answer ERROR or END.                *)
(***************************************************************************)
DEAL_RES_CONTINUE == "DEAL_RES_CONTINUE"

DEAL_RES_ERROR == "DEAL_RES_ERROR"

DEAL_RES_END == "DEAL_RES_END"

TRAVERSAL_PREORDER == "TRAVERSAL_PREORDER"

TRAVERSAL_POSTORDER == "TRAVERSAL_POSTORDER"

EDealRes == {DEAL_RES_CONTINUE, DEAL_RES_ERROR, DEAL_RES_END}

NoSlot == [o |-> NULL, k |-> "none", i |-> 0]

Store(h, s, v) ==
  IF s.k = "f" THEN [h EXCEPT ![s.o].f[s.i] = v]
               ELSE [h EXCEPT ![s.o].elems[s.i] = v]

Run0(h, budget, stops) ==
  [h |-> h, log |-> <<>>, res |-> DEAL_RES_CONTINUE, budget |-> budget, stops |-> stops]

\* what the callback may answer in run r
Answers(r) ==
  IF r.stops > 0 THEN EDealRes ELSE {DEAL_RES_CONTINUE}

Answered(r, slot, node, out, new) ==
  [r EXCEPT !.log = Append(@, [slot |-> slot, node |-> node, out |-> out, new |-> new]),
            !.res = out,
            !.stops = IF out = DEAL_RES_CONTINUE THEN @ ELSE @ - 1]

\* walker(pNode, pContext)
Walker(r, pNode) ==
  {Answered(r, NoSlot, pNode, out, pNode) : out \in Answers(r)}

\* the heap after the rewriter has put a fresh node of the given shape in slot
Replaced(h, slot, shape) ==
  LET n == Len(h)
  IN  IF shape = "leaf"
        THEN Store(Append(h, nodesMakeNode("VALUE", 0)), slot, n + 1)
        ELSE Store(h \o <<nodesMakeNode("VALUE", 0), nodesMakeNode("VALUE", 0),
                           [nodesMakeNode("OPERATOR", 2) EXCEPT !.f = <<n + 1, n + 2>>]>>,
                   slot, n + 3)

\* rewriter(pRawNode, pContext): the rewriter keeps the node of the slot, or
\* puts a node it has built in its place (a leaf, or an operator over two leaves)
Rewriter(r, slot) ==
  LET pNode == Deref(r.h, slot)
  IN  {Answered(r, slot, pNode, out, pNode) : out \in Answers(r)} \cup
      IF r.budget = 0 THEN {}
      ELSE UNION {
             LET h1 == Replaced(r.h, slot, shape)
             IN  {Answered([r EXCEPT !.h = h1, !.budget = @ - 1],
                           slot, pNode, out, Deref(h1, slot)) : out \in Answers(r)}
               : shape \in {"leaf", "inner"}}

\* the checks DEAL_RES_CONTINUE != res and
\* !(DEAL_RES_ERROR != res && DEAL_RES_END != res)
StopsMutant(result) == result = DEAL_RES_ERROR

Stops(result) == result # DEAL_RES_CONTINUE

VisitsBeforeMutant(o) == o = TRAVERSAL_POSTORDER

\* the callback is invoked before the children
VisitsBefore(o) == o = TRAVERSAL_PREORDER

\* the callback is invoked after the children
VisitsAfter(o) == o = TRAVERSAL_POSTORDER

ListKinds == {"LOGIC_CONDITION", "FUNCTION", "GROUPING_SET", "NODE_LIST"}

\* a switch that descends into the right operand of an operator first
ChildFieldsMutant(kind) ==
  CASE kind = "OPERATOR"        -> <<2, 1>>
    [] kind = "JOIN_TABLE"      -> <<1, 2, 3>>
    [] kind = "ORDER_BY_EXPR"   -> <<1>>
    [] kind = "STATE_WINDOW"    -> <<1, 2>>
    [] kind = "SESSION_WINDOW"  -> <<1, 2>>
    [] kind = "INTERVAL_WINDOW" -> <<1, 2, 3, 4, 5>>
    [] kind = "FILL"            -> <<1>>
    [] kind = "RAW_EXPR"        -> <<1>>
    [] kind = "TARGET"          -> <<1>>
    [] OTHER                    -> <<>>

\* the switch of walkNode and rewriteNode: the pointer fields descended into,
\* in the order of the calls
ChildFields(kind) ==
  CASE kind = "OPERATOR"        -> <<1, 2>>
    [] kind = "JOIN_TABLE"      -> <<1, 2, 3>>
    [] kind = "ORDER_BY_EXPR"   -> <<1>>
    [] kind = "STATE_WINDOW"    -> <<1, 2>>
    [] kind = "SESSION_WINDOW"  -> <<1, 2>>
    [] kind = "INTERVAL_WINDOW" -> <<1, 2, 3, 4, 5>>
    [] kind = "FILL"            -> <<1>>
    [] kind = "RAW_EXPR"        -> <<1>>
    [] kind = "TARGET"          -> <<1>>
    [] OTHER                    -> <<>>

RECURSIVE walkNode(_, _, _)
RECURSIVE walkFields(_, _, _, _)
RECURSIVE walkCells(_, _, _, _)
RECURSIVE rewriteNode(_, _, _)
RECURSIVE rewriteFields(_, _, _, _)
RECURSIVE rewriteCells(_, _, _, _)

\* FOREACH from cell i on, without the check of the element's result
walkCellsMutant(r, pNodeList, i, o) ==
  IF i > Len(r.h[pNodeList].elems) THEN {[r EXCEPT !.res = DEAL_RES_CONTINUE]}
  ELSE UNION {walkCells(r1, pNodeList, i + 1, o)
                : r1 \in walkNode(r, r.h[pNodeList].elems[i], o)}

\* FOREACH(node, pNodeList) from cell i on
walkCells(r, pNodeList, i, o) ==
  IF i > Len(r.h[pNodeList].elems) THEN {[r EXCEPT !.res = DEAL_RES_CONTINUE]}
  ELSE UNION {IF Stops(r1.res) THEN {r1} ELSE walkCells(r1, pNodeList, i + 1, o)
                : r1 \in walkNode(r, r.h[pNodeList].elems[i], o)}

walkList(r, pNodeList, o) ==
  IF pNodeList = NULL THEN {[r EXCEPT !.res = DEAL_RES_CONTINUE]}
  ELSE walkCells(r, pNodeList, 1, o)

\* the children named by fields, without the check of the child's result
walkFieldsMutant(r, pNode, fields, o) ==
  IF fields = <<>> THEN {r}
  ELSE UNION {walkFields(r1, pNode, Tail(fields), o)
                : r1 \in walkNode(r, r.h[pNode].f[Head(fields)], o)}

\* the children named by fields, each after the check of the one before
walkFields(r, pNode, fields, o) ==
  IF fields = <<>> THEN {r}
  ELSE UNION {IF Stops(r1.res) THEN {r1} ELSE walkFields(r1, pNode, Tail(fields), o)
                : r1 \in walkNode(r, r.h[pNode].f[Head(fields)], o)}

\* a walkNode that answers END for a null node
walkNodeMutant(r, pNode, o) ==
  IF pNode = NULL THEN {[r EXCEPT !.res = DEAL_RES_END]}
  ELSE
    LET r0   == [r EXCEPT !.res = DEAL_RES_CONTINUE]
        pre  == IF VisitsBefore(o) THEN Walker(r0, pNode) ELSE {r0}
        kids(r1) == IF r1.h[pNode].kind \in ListKinds
                      THEN walkList(r1, r1.h[pNode].f[1], o)
                      ELSE walkFields(r1, pNode, ChildFields(r1.h[pNode].kind), o)
        post(r2) == IF ~Stops(r2.res) /\ VisitsAfter(o) THEN Walker(r2, pNode) ELSE {r2}
    IN  UNION {IF Stops(r1.res) THEN {r1}
               ELSE UNION {post(r2) : r2 \in kids(r1)}
                 : r1 \in pre}

walkNode(r, pNode, o) ==
  IF pNode = NULL THEN {[r EXCEPT !.res = DEAL_RES_CONTINUE]}
  ELSE
    LET r0   == [r EXCEPT !.res = DEAL_RES_CONTINUE]
        pre  == IF VisitsBefore(o) THEN Walker(r0, pNode) ELSE {r0}
        kids(r1) == IF r1.h[pNode].kind \in ListKinds
                      THEN walkList(r1, r1.h[pNode].f[1], o)
                      ELSE walkFields(r1, pNode, ChildFields(r1.h[pNode].kind), o)
        post(r2) == IF ~Stops(r2.res) /\ VisitsAfter(o) THEN Walker(r2, pNode) ELSE {r2}
    IN  UNION {IF Stops(r1.res) THEN {r1}
               ELSE UNION {post(r2) : r2 \in kids(r1)}
                 : r1 \in pre}

\* FOREACH_FOR_REWRITE that unlinks the last cell when it is through
rewriteCellsMutant(r, pNodeList, i, o) ==
  IF i > Len(r.h[pNodeList].elems)
    THEN {[r EXCEPT !.res = DEAL_RES_CONTINUE,
                    !.h[pNodeList].elems = SubSeq(@, 1, Len(@) - 1)]}
  ELSE UNION {IF Stops(r1.res) THEN {r1} ELSE rewriteCells(r1, pNodeList, i + 1, o)
                : r1 \in rewriteNode(r, [o |-> pNodeList, k |-> "e", i |-> i], o)}

\* FOREACH_FOR_REWRITE(pNode, pNodeList) from cell i on
rewriteCells(r, pNodeList, i, o) ==
  IF i > Len(r.h[pNodeList].elems) THEN {[r EXCEPT !.res = DEAL_RES_CONTINUE]}
  ELSE UNION {IF Stops(r1.res) THEN {r1} ELSE rewriteCells(r1, pNodeList, i + 1, o)
                : r1 \in rewriteNode(r, [o |-> pNodeList, k |-> "e", i |-> i], o)}

rewriteList(r, pNodeList, o) ==
  IF pNodeList = NULL THEN {[r EXCEPT !.res = DEAL_RES_CONTINUE]}
  ELSE rewriteCells(r, pNodeList, 1, o)

\* the children named by fields, the last one first
rewriteFieldsMutant(r, pNode, fields, o) ==
  IF fields = <<>> THEN {r}
  ELSE LET n == Len(fields)
       IN  UNION {IF Stops(r1.res) THEN {r1}
                  ELSE rewriteFields(r1, pNode, SubSeq(fields, 1, n - 1), o)
                    : r1 \in rewriteNode(r, [o |-> pNode, k |-> "f", i |-> fields[n]], o)}

\* the children named by fields, each after the check of the one before
rewriteFields(r, pNode, fields, o) ==
  IF fields = <<>> THEN {r}
  ELSE UNION {IF Stops(r1.res) THEN {r1} ELSE rewriteFields(r1, pNode, Tail(fields), o)
                : r1 \in rewriteNode(r, [o |-> pNode, k |-> "f", i |-> Head(fields)], o)}

\* SNode* pNode = *pRawNode, read before the rewriter was called
NodeOfSlotMutant(before, after, slot) == Deref(before.h, slot)

\* SNode* pNode = *pRawNode: the node the switch descends into; `before` is the
\* run at the entry of rewriteNode, `after` the run at this statement
NodeOfSlot(before, after, slot) == Deref(after.h, slot)

\* a rewriteNode that destroys the node the rewriter has displaced
Destroyed(before, after, slot) ==
  LET old == Deref(before.h, slot)
  IN  IF Deref(after.h, slot) = old THEN after
      ELSE [after EXCEPT !.h[old] = nodesMakeNode("DESTROYED", 0)]

rewriteNodeMutant(r, pRawNode, o) ==
  IF Deref(r.h, pRawNode) = NULL THEN {[r EXCEPT !.res = DEAL_RES_CONTINUE]}
  ELSE
    LET r0   == [r EXCEPT !.res = DEAL_RES_CONTINUE]
        pre  == IF VisitsBefore(o)
                  THEN {Destroyed(r0, x, pRawNode) : x \in Rewriter(r0, pRawNode)}
                  ELSE {r0}
        kids(r1) == LET pNode == NodeOfSlot(r0, r1, pRawNode)
                    IN  IF r1.h[pNode].kind \in ListKinds
                          THEN rewriteList(r1, r1.h[pNode].f[1], o)
                          ELSE rewriteFields(r1, pNode, ChildFields(r1.h[pNode].kind), o)
        post(r2) == IF ~Stops(r2.res) /\ VisitsAfter(o)
                      THEN {Destroyed(r2, x, pRawNode) : x \in Rewriter(r2, pRawNode)}
                      ELSE {r2}
    IN  UNION {IF Stops(r1.res) THEN {r1}
               ELSE UNION {post(r2) : r2 \in kids(r1)}
                 : r1 \in pre}

rewriteNode(r, pRawNode, o) ==
  IF Deref(r.h, pRawNode) = NULL THEN {[r EXCEPT !.res = DEAL_RES_CONTINUE]}
  ELSE
    LET r0   == [r EXCEPT !.res = DEAL_RES_CONTINUE]
        pre  == IF VisitsBefore(o) THEN Rewriter(r0, pRawNode) ELSE {r0}
        kids(r1) == LET pNode == NodeOfSlot(r0, r1, pRawNode)
                    IN  IF r1.h[pNode].kind \in ListKinds
                          THEN rewriteList(r1, r1.h[pNode].f[1], o)
                          ELSE rewriteFields(r1, pNode, ChildFields(r1.h[pNode].kind), o)
        post(r2) == IF ~Stops(r2.res) /\ VisitsAfter(o) THEN Rewriter(r2, pRawNode) ELSE {r2}
    IN  UNION {IF Stops(r1.res) THEN {r1}
               ELSE UNION {post(r2) : r2 \in kids(r1)}
                 : r1 \in pre}

(***************************************************************************)
(* The public entry points.  Each hands the run of the engine on and       *)
(* returns nothing: the EDealRes of the engine is cast to void.            *)
(***************************************************************************)
\* the value a public entry point returns for the run r of the engine
PublicResult(r) == "void"

Public(runs) == {[run |-> r, ret |-> PublicResult(r)] : r \in runs}

nodesWalkExpr(r, pNode) == Public(walkNode(r, pNode, TRAVERSAL_PREORDER))

nodesWalkExprs(r, pNodeList) == Public(walkList(r, pNodeList, TRAVERSAL_PREORDER))

nodesWalkExprPostOrder(r, pNode) == Public(walkNode(r, pNode, TRAVERSAL_POSTORDER))

nodesWalkExprsPostOrder(r, pList) == Public(walkList(r, pList, TRAVERSAL_POSTORDER))

nodesRewriteExpr(r, pNode) == Public(rewriteNode(r, pNode, TRAVERSAL_PREORDER))

nodesRewriteExprs(r, pList) == Public(rewriteList(r, pList, TRAVERSAL_PREORDER))

nodesRewriteExprPostOrder(r, pNode) == Public(rewriteNode(r, pNode, TRAVERSAL_POSTORDER))

nodesRewriteExprsPostOrder(r, pList) == Public(rewriteList(r, pList, TRAVERSAL_POSTORDER))

(***************************************************************************)
(* Sample trees for the engine: a root of any kind over subtrees that are  *)
(* absent, a leaf, or an operator over two leaves; the last object stands  *)
(* for the caller's variable that holds the pointer to the root.           *)
(***************************************************************************)
NodeKinds ==
  {"COLUMN", "VALUE", "LIMIT", "REAL_TABLE", "OPERATOR", "LOGIC_CONDITION",
   "FUNCTION", "TEMP_TABLE", "JOIN_TABLE", "GROUPING_SET", "ORDER_BY_EXPR",
   "STATE_WINDOW", "SESSION_WINDOW", "INTERVAL_WINDOW", "NODE_LIST", "FILL",
   "RAW_EXPR", "TARGET", "SET_OPERATOR", "IS_NULL_CONDITION"}

\* the number of pointer fields of a node of the given kind
NFields(kind) ==
  CASE kind \in {"COLUMN", "VALUE", "LIMIT", "REAL_TABLE"} -> 0
    [] kind \in {"ORDER_BY_EXPR", "FILL", "RAW_EXPR", "TARGET", "TEMP_TABLE",
                 "IS_NULL_CONDITION", "VAR"} \cup ListKinds -> 1
    [] kind \in {"OPERATOR", "STATE_WINDOW", "SESSION_WINDOW", "SET_OPERATOR"} -> 2
    [] kind = "JOIN_TABLE" -> 3
    [] kind = "INTERVAL_WINDOW" -> 5
    [] kind = "SELECT_STMT" -> 10

Shapes == {"null", "leaf", "op"}

\* heap h with a subtree of the given shape added, and the pointer to it
AddSub(h, shape) ==
  LET n == Len(h)
  IN  CASE shape = "null" -> [h |-> h, p |-> NULL]
        [] shape = "leaf" -> [h |-> Append(h, nodesMakeNode("VALUE", 0)), p |-> n + 1]
        [] shape = "op"   ->
             [h |-> h \o <<nodesMakeNode("COLUMN", 0), nodesMakeNode("VALUE", 0),
                           [nodesMakeNode("OPERATOR", 2) EXCEPT !.f = <<n + 1, n + 2>>]>>,
              p |-> n + 3]

RECURSIVE AddSubs(_, _)
\* heap h with one subtree per shape added, and the pointers to them
AddSubs(h, shapes) ==
  IF shapes = <<>> THEN [h |-> h, ps |-> <<>>]
  ELSE LET a == AddSub(h, Head(shapes))
           b == AddSubs(a.h, Tail(shapes))
       IN  [h |-> b.h, ps |-> <<a.p>> \o b.ps]

\* a node of the given kind over the given subtrees, then the caller's variable
SampleNode(kind, shapes) ==
  LET a == AddSubs(<<>>, shapes)
      n == Len(a.h)
  IN  a.h \o <<[nodesMakeNode(kind, NFields(kind)) EXCEPT !.f = a.ps],
               [nodesMakeNode("VAR", 1) EXCEPT !.f = <<n + 1>>]>>

\* a node of a list kind over a list of the given subtrees
SampleListNode(kind, shapes) ==
  LET a == AddSubs(<<>>, shapes)
      n == Len(a.h)
  IN  a.h \o <<[nodesMakeList EXCEPT !.elems = a.ps],
               [nodesMakeNode(kind, 1) EXCEPT !.f = <<n + 1>>],
               [nodesMakeNode("VAR", 1) EXCEPT !.f = <<n + 2>>]>>

\* the objects of a sample that are nodes of the tree
TreeSize(h) == Cardinality({n \in 1..Len(h) : h[n].kind \notin {"VAR", "LIST"}})

Samples ==
  LET plain == UNION {{SampleNode(kind, shapes) : shapes \in [1..NFields(kind) -> Shapes]}
                        : kind \in NodeKinds \ ListKinds}
      lists == UNION {{SampleNode(kind, <<"null">>)} \cup
                      UNION {{SampleListNode(kind, shapes)
                                : shapes \in [1..count -> Shapes \ {"null"}]}
                               : count \in 0..MaxLen}
                        : kind \in ListKinds}
  IN  {h \in plain \cup lists : TreeSize(h) <= MaxNodes}

\* the caller's variable of a sample, its slot, and the root it points to
RootVar(h) == CHOOSE n \in 1..Len(h) : h[n].kind = "VAR"

RootSlot(h) == [o |-> RootVar(h), k |-> "f", i |-> 1]

Root(h) == h[RootVar(h)].f[1]

\* the list of the root, when the root is of a list kind and has one
RootList(h) == IF h[Root(h)].kind \in ListKinds THEN h[Root(h)].f[1] ELSE NULL

InitWalk ==
  /\ heap \in Samples
  /\ valid = TRUE
  /\ ret = NULL
  /\ call = "none"
  /\ failed = FALSE
  /\ ncalls = 0
  /\ noom = 0
  /\ held = <<>>
  /\ nrepl = 0
  /\ InitWalkVars
  /\ InitSmaVars
  /\ InitStepVars
  /\ InitCatVars

\* one traversal of a fresh sample: entry point `name`, started on st with
\* the order o, ends as one of outs
Traverses(name, st, o, outs) ==
  /\ call = "none"
  /\ \E x \in outs :
       /\ heap' = x.run.h
       /\ log' = x.run.log
       /\ res' = x.run.res
       /\ ret' = x.ret
       /\ nrepl' = MaxRepl - x.run.budget
  /\ call' = name
  /\ start' = st
  /\ order' = o
  /\ h0' = heap
  /\ UNCHANGED <<valid, failed, ncalls, noom, held, clause, smaVars, stepVars, catVars>>

Run == Run0(heap, MaxRepl - nrepl, MaxStops)

NodesWalkExpr ==
  Traverses("nodesWalkExpr", [p |-> Root(heap), slot |-> NoSlot],
            TRAVERSAL_PREORDER, nodesWalkExpr(Run, Root(heap)))

NodesWalkExprs ==
  /\ call = "none"
  /\ RootList(heap) # NULL
  /\ Traverses("nodesWalkExprs", [p |-> RootList(heap), slot |-> NoSlot],
               TRAVERSAL_PREORDER, nodesWalkExprs(Run, RootList(heap)))

NodesWalkExprPostOrder ==
  Traverses("nodesWalkExprPostOrder", [p |-> Root(heap), slot |-> NoSlot],
            TRAVERSAL_POSTORDER, nodesWalkExprPostOrder(Run, Root(heap)))

NodesWalkExprsPostOrder ==
  /\ call = "none"
  /\ RootList(heap) # NULL
  /\ Traverses("nodesWalkExprsPostOrder", [p |-> RootList(heap), slot |-> NoSlot],
               TRAVERSAL_POSTORDER, nodesWalkExprsPostOrder(Run, RootList(heap)))

NodesRewriteExpr ==
  Traverses("nodesRewriteExpr", [p |-> Root(heap), slot |-> RootSlot(heap)],
            TRAVERSAL_PREORDER, nodesRewriteExpr(Run, RootSlot(heap)))

NodesRewriteExprs ==
  /\ call = "none"
  /\ RootList(heap) # NULL
  /\ Traverses("nodesRewriteExprs", [p |-> RootList(heap), slot |-> NoSlot],
               TRAVERSAL_PREORDER, nodesRewriteExprs(Run, RootList(heap)))

NodesRewriteExprPostOrder ==
  Traverses("nodesRewriteExprPostOrder", [p |-> Root(heap), slot |-> RootSlot(heap)],
            TRAVERSAL_POSTORDER, nodesRewriteExprPostOrder(Run, RootSlot(heap)))

NodesRewriteExprsPostOrder ==
  /\ call = "none"
  /\ RootList(heap) # NULL
  /\ Traverses("nodesRewriteExprsPostOrder", [p |-> RootList(heap), slot |-> NoSlot],
               TRAVERSAL_POSTORDER, nodesRewriteExprsPostOrder(Run, RootList(heap)))

NextWalk ==
  \/ NodesWalkExpr
  \/ NodesWalkExprs
  \/ NodesWalkExprPostOrder
  \/ NodesWalkExprsPostOrder
  \/ NodesRewriteExpr
  \/ NodesRewriteExprs
  \/ NodesRewriteExprPostOrder
  \/ NodesRewriteExprsPostOrder

SpecWalk == InitWalk /\ [][NextWalk]_vars

(***************************************************************************)
(* The select driver.  The body of the switch is eight statements, the     *)
(* k-th of which traverses the k-th pointer field of the statement; a case *)
(* label enters the body at one of them and control falls through to the   *)
(* end, since no case has a break.                                         *)
(***************************************************************************)
\* ESqlClause, in pipeline order
ESqlClause ==
  <<"SQL_CLAUSE_FROM", "SQL_CLAUSE_WHERE", "SQL_CLAUSE_PARTITION_BY",
    "SQL_CLAUSE_WINDOW", "SQL_CLAUSE_GROUP_BY", "SQL_CLAUSE_HAVING",
    "SQL_CLAUSE_DISTINCT", "SQL_CLAUSE_ORDER_BY", "SQL_CLAUSE_PROJECTION">>

Clauses == {ESqlClause[k] : k \in 1..Len(ESqlClause)}

\* the position of a clause in the pipeline
ClausePos(c) == CHOOSE k \in 1..Len(ESqlClause) : ESqlClause[k] = c

\* every label enters the body at the statement of its own clause
CaseLabelMutant(c) ==
  CASE c = "SQL_CLAUSE_FROM"         -> 1
    [] c = "SQL_CLAUSE_WHERE"        -> 2
    [] c = "SQL_CLAUSE_PARTITION_BY" -> 3
    [] c = "SQL_CLAUSE_WINDOW"       -> 4
    [] c = "SQL_CLAUSE_GROUP_BY"     -> 5
    [] c = "SQL_CLAUSE_HAVING"       -> 6
    [] c = "SQL_CLAUSE_DISTINCT"     -> 7
    [] c = "SQL_CLAUSE_ORDER_BY"     -> 7
    [] OTHER                         -> 8

\* a label that enters the body one statement too early
CaseLabelEarly(c) ==
  CASE c = "SQL_CLAUSE_FROM"         -> 1
    [] c = "SQL_CLAUSE_WHERE"        -> 3
    [] c = "SQL_CLAUSE_PARTITION_BY" -> 4
    [] c = "SQL_CLAUSE_WINDOW"       -> 5
    [] c = "SQL_CLAUSE_GROUP_BY"     -> 4
    [] c = "SQL_CLAUSE_HAVING"       -> 7
    [] c = "SQL_CLAUSE_DISTINCT"     -> 7
    [] c = "SQL_CLAUSE_ORDER_BY"     -> 8
    [] OTHER                         -> 9

\* a DISTINCT label placed before the statement of the having predicate
CaseLabelDistinct(c) ==
  CASE c = "SQL_CLAUSE_FROM"         -> 1
    [] c = "SQL_CLAUSE_WHERE"        -> 3
    [] c = "SQL_CLAUSE_PARTITION_BY" -> 4
    [] c = "SQL_CLAUSE_WINDOW"       -> 5
    [] c = "SQL_CLAUSE_GROUP_BY"     -> 6
    [] c = "SQL_CLAUSE_HAVING"       -> 7
    [] c = "SQL_CLAUSE_DISTINCT"     -> 6
    [] c = "SQL_CLAUSE_ORDER_BY"     -> 8
    [] OTHER                         -> 9

\* the statement of the switch body that the case label of clause c precedes
\* (9: the default label, after the last statement)
CaseLabel(c) ==
  CASE c = "SQL_CLAUSE_FROM"         -> 1
    [] c = "SQL_CLAUSE_WHERE"        -> 3
    [] c = "SQL_CLAUSE_PARTITION_BY" -> 4
    [] c = "SQL_CLAUSE_WINDOW"       -> 5
    [] c = "SQL_CLAUSE_GROUP_BY"     -> 6
    [] c = "SQL_CLAUSE_HAVING"       -> 7
    [] c = "SQL_CLAUSE_DISTINCT"     -> 7
    [] c = "SQL_CLAUSE_ORDER_BY"     -> 8
    [] OTHER                         -> 9

\* the statements that traverse a list: pPartitionByList, pGroupByList,
\* pOrderByList, pProjectionList
ListFields == {3, 5, 7, 8}

\* a body whose first two statements are exchanged: the where predicate is
\* walked before the from-table
RECURSIVE walkSelectFromMutant(_, _, _)
walkSelectFromMutant(r, pSelect, k) ==
  IF k > 8 THEN {r}
  ELSE LET fld == IF k = 1 THEN 2 ELSE IF k = 2 THEN 1 ELSE k
       IN  UNION {walkSelectFromMutant(x.run, pSelect, k + 1)
                    : x \in IF k \in ListFields
                              THEN nodesWalkExprs(r, r.h[pSelect].f[fld])
                              ELSE nodesWalkExpr(r, r.h[pSelect].f[fld])}

RECURSIVE walkSelectFrom(_, _, _)
\* the statements k, k + 1, ... of the body of nodesWalkSelectStmt
walkSelectFrom(r, pSelect, k) ==
  IF k > 8 THEN {r}
  ELSE UNION {walkSelectFrom(x.run, pSelect, k + 1)
                : x \in IF k \in ListFields
                          THEN nodesWalkExprs(r, r.h[pSelect].f[k])
                          ELSE nodesWalkExpr(r, r.h[pSelect].f[k])}

nodesWalkSelectStmt(r, pSelect, c) ==
  IF pSelect = NULL THEN {[run |-> r, ret |-> "void"]}
  ELSE {[run |-> r1, ret |-> "void"] : r1 \in walkSelectFrom(r, pSelect, CaseLabel(c))}

RECURSIVE rewriteSelectFrom(_, _, _)
\* the statements k, k + 1, ... of the body of nodesRewriteSelectStmt
rewriteSelectFrom(r, pSelect, k) ==
  IF k > 8 THEN {r}
  ELSE UNION {rewriteSelectFrom(x.run, pSelect, k + 1)
                : x \in IF k \in ListFields
                          THEN nodesRewriteExprs(r, r.h[pSelect].f[k])
                          ELSE nodesRewriteExpr(r, [o |-> pSelect, k |-> "f", i |-> k])}

nodesRewriteSelectStmt(r, pSelect, c) ==
  IF pSelect = NULL THEN {[run |-> r, ret |-> "void"]}
  ELSE {[run |-> r1, ret |-> "void"] : r1 \in rewriteSelectFrom(r, pSelect, CaseLabel(c))}

(***************************************************************************)
(* Sample statements: every clause is absent or holds a small expression   *)
(* or list of its own.                                                     *)
(***************************************************************************)
Leaf(kind) == nodesMakeNode(kind, 0)

\* heap h with the content of the k-th field of a select statement added
AddClause(h, k) ==
  LET n == Len(h)
      op2(kind) == [nodesMakeNode(kind, 2) EXCEPT !.f = <<n + 1, n + 2>>]
  IN  CASE k = 1 -> [h |-> Append(h, Leaf("REAL_TABLE")), p |-> n + 1]
        [] k = 2 -> [h |-> h \o <<Leaf("COLUMN"), Leaf("VALUE"), op2("OPERATOR")>>,
                     p |-> n + 3]
        [] k = 3 -> [h |-> h \o <<Leaf("COLUMN"),
                                  [nodesMakeList EXCEPT !.elems = <<n + 1>>]>>,
                     p |-> n + 2]
        [] k = 4 -> [h |-> h \o <<Leaf("COLUMN"),
                                  [nodesMakeNode("SESSION_WINDOW", 2) EXCEPT
                                     !.f = <<n + 1, NULL>>]>>,
                     p |-> n + 2]
        [] k = 5 -> [h |-> h \o <<Leaf("COLUMN"), Leaf("COLUMN"),
                                  [nodesMakeList EXCEPT !.elems = <<n + 1, n + 2>>]>>,
                     p |-> n + 3]
        [] k = 6 -> [h |-> h \o <<Leaf("COLUMN"), Leaf("VALUE"), op2("OPERATOR")>>,
                     p |-> n + 3]
        [] k = 7 -> [h |-> h \o <<Leaf("COLUMN"),
                                  [nodesMakeNode("ORDER_BY_EXPR", 1) EXCEPT !.f = <<n + 1>>],
                                  [nodesMakeList EXCEPT !.elems = <<n + 2>>]>>,
                     p |-> n + 3]
        [] k = 8 -> [h |-> h \o <<Leaf("COLUMN"), Leaf("VALUE"),
                                  [nodesMakeList EXCEPT !.elems = <<n + 1, n + 2>>]>>,
                     p |-> n + 3]

RECURSIVE AddClauses(_, _, _)
\* heap h with the clauses k..8 that are in present added, and their pointers
AddClauses(h, present, k) ==
  IF k > 8 THEN [h |-> h, ps |-> <<>>]
  ELSE LET a == IF k \in present THEN AddClause(h, k) ELSE [h |-> h, p |-> NULL]
           b == AddClauses(a.h, present, k + 1)
       IN  [h |-> b.h, ps |-> <<a.p>> \o b.ps]

SampleSelect(present) ==
  LET a == AddClauses(<<>>, present, 1)
  IN  Append(a.h, [nodesMakeNode("SELECT_STMT", 10) EXCEPT
                     !.f = a.ps \o <<NULL, NULL>>,
                     !.isStar = (8 \notin present)])

\* the statement of a sample
Select(h) == CHOOSE n \in 1..Len(h) : h[n].kind = "SELECT_STMT"

InitSelect ==
  /\ \E present \in SUBSET (1..8) : heap = SampleSelect(present)
  /\ valid = TRUE
  /\ ret = NULL
  /\ call = "none"
  /\ failed = FALSE
  /\ ncalls = 0
  /\ noom = 0
  /\ held = <<>>
  /\ nrepl = 0
  /\ InitWalkVars
  /\ InitSmaVars
  /\ InitStepVars
  /\ InitCatVars

\* the callbacks of the select traversals: the rewriter keeps every node it
\* is shown (replacement is exercised on the sample trees of the engine)
RunSelect == Run0(heap, 0, MaxStops)

\* one select traversal of a fresh sample
TraversesSelect(name, pSelect, c, outs) ==
  /\ call = "none"
  /\ \E x \in outs :
       /\ heap' = x.run.h
       /\ log' = x.run.log
       /\ ret' = x.ret
  /\ res' = "none"
  /\ call' = name
  /\ start' = [p |-> pSelect, slot |-> NoSlot]
  /\ clause' = c
  /\ order' = TRAVERSAL_PREORDER
  /\ h0' = heap
  /\ UNCHANGED <<valid, failed, ncalls, noom, held, nrepl, smaVars, stepVars, catVars>>

NodesWalkSelectStmt ==
  /\ call = "none"
  /\ \E pSelect \in {Select(heap), NULL}, c \in Clauses :
       TraversesSelect("nodesWalkSelectStmt", pSelect, c,
                       nodesWalkSelectStmt(RunSelect, pSelect, c))

NodesRewriteSelectStmt ==
  /\ call = "none"
  /\ \E pSelect \in {Select(heap), NULL}, c \in Clauses :
       TraversesSelect("nodesRewriteSelectStmt", pSelect, c,
                       nodesRewriteSelectStmt(RunSelect, pSelect, c))

NextSelect ==
  \/ NodesWalkSelectStmt
  \/ NodesRewriteSelectStmt

SpecSelect == InitSelect /\ [][NextSelect]_vars

(***************************************************************************)
(* createSelectStmt on its own: the projection list it is handed is        *)
(* absent, null, or a list of any length from empty on; the table is a     *)
(* node or null; the context is valid or not.                              *)
(***************************************************************************)
\* a heap with a projection list over the given subtrees
ProjectionList(shapes) ==
  LET a == AddSubs(<<>>, shapes)
  IN  Append(a.h, [nodesMakeList EXCEPT !.elems = a.ps])

ProjectionHeaps ==
  UNION {{ProjectionList(shapes) : shapes \in [1..count -> Shapes \ {"null"}]}
           : count \in 0..MaxLen}

\* heap h and stack st, with a table pushed: a node, or the null of a
\* createRealTableNode that failed
WithTable(h, st) ==
  {[heap |-> Append(h, nodesMakeNode("REAL_TABLE", 0)),
    held |-> Append(st, Val(Len(h) + 1, "table"))],
   [heap |-> h, held |-> Append(st, Val(NULL, "table"))]}

SelectInputs ==
  WithTable(<<>>, <<>>)
    \cup WithTable(<<>>, <<Val(NULL, "list")>>)
    \cup UNION {WithTable(h, <<Val(Len(h), "list")>>) : h \in ProjectionHeaps}

InitStmt ==
  /\ \E x \in SelectInputs :
       /\ heap = x.heap
       /\ held = x.held
       /\ valid \in BOOLEAN
       /\ failed = (~valid \/ \E k \in 1..Len(x.held) : x.held[k].p = NULL)
  /\ ret = NULL
  /\ call = "none"
  /\ ncalls = 0
  /\ noom = 0
  /\ nrepl = 0
  /\ InitWalkVars
  /\ InitSmaVars
  /\ InitStepVars
  /\ InitCatVars

NextStmt == CreateSelectStmt

SpecStmt == InitStmt /\ [][NextStmt]_vars

(***************************************************************************)
(* Materialized-aggregate index definitions (STSma), their binary          *)
(* encoding and the metadata store that keeps them.  The test              *)
(* source/dnode/vnode/test/tsdbSmaTest.cpp constructs the definitions and  *)
(* calls the encoder, the decoder and the store; their code is not among   *)
(* the sources at hand and is modelled from their contract: fields of      *)
(* fixed width, strings behind their length, an encoder that counts        *)
(* without writing when it is given no buffer, a store keyed by index name *)
(* with an index by table uid.                                             *)
(***************************************************************************)
\* indexes in a wrapper
MaxSma == 2
\* functions of an index, and column ids of a function
MaxIds == 2
\* bytes of a tags filter
MaxBytes == 2

TD_TIME_UNIT_DAY == 100

TD_TIME_UNIT_HOUR == 104

TD_TIME_UNIT_MINUTE == 109

PRIMARYKEY_TIMESTAMP_COL_ID == 1

\* the two index names of the test, each by the character it ends in
IndexNames == {<<49>>, <<50>>}

\* no timezone, and "Z"
TimeZones == {<<>>, <<90>>}

\* the table uid of the test, and another
TableUids == {1234567890, 7}

\* the bytes of the tags filters: a quote, and the byte that ends a C string
FilterBytes == {39, 0}

TagsFilters == UNION {[1..n -> FilterBytes] : n \in 0..MaxBytes}

\* nf functions numbered from 0 as in the test, the first with nc column ids,
\* the next with one more (up to MaxIds, then none), the ids counted from
\* PRIMARYKEY_TIMESTAMP_COL_ID
FuncColIds(nf, nc) ==
  [n \in 1..nf |->
     LET k == (nc + n - 1) % (MaxIds + 1)
     IN  [funcId |-> n - 1,
          nColIds |-> k,
          colIds |-> [i \in 1..k |-> i - 1 + PRIMARYKEY_TIMESTAMP_COL_ID]]]

\* an STSma as the test fills it: cfg 0 is its first configuration (a day,
\* sliding 0 hours), cfg 1 its second (version 1, an hour, sliding 5 minutes)
Sma(name, cfg, uid, tz, funcs, filter) ==
  [version |-> cfg,
   intervalUnit |-> IF cfg = 0 THEN TD_TIME_UNIT_DAY ELSE TD_TIME_UNIT_HOUR,
   slidingUnit |-> IF cfg = 0 THEN TD_TIME_UNIT_HOUR ELSE TD_TIME_UNIT_MINUTE,
   indexName |-> name,
   timezone |-> tz,
   nFuncColIds |-> Len(funcs),
   tableUid |-> uid,
   interval |-> 1,
   sliding |-> IF cfg = 0 THEN 0 ELSE 5,
   tagsFilterLen |-> Len(filter),
   tagsFilter |-> filter,
   funcColIds |-> funcs]

\* definitions that differ in name, configuration and table: the first
\* configuration without functions and filter, the second with both
SmaCore ==
  {Sma(name, cfg, uid, <<90>>,
       IF cfg = 0 THEN <<>> ELSE FuncColIds(MaxIds, 1),
       IF cfg = 0 THEN <<>> ELSE [i \in 1..MaxBytes |-> IF i % 2 = 1 THEN 39 ELSE 0])
     : name \in IndexNames, cfg \in {0, 1}, uid \in TableUids}

\* definitions that differ in timezone, functions, column ids and filter
SmaWide ==
  {Sma(<<49>>, 0, 1234567890, tz, FuncColIds(nf, nc), filter)
     : tz \in TimeZones, nf \in 0..MaxIds, nc \in 0..MaxIds, filter \in TagsFilters}

STSmaWrapper(tSma) == [number |-> Len(tSma), tSma |-> tSma]

Wrappers ==
  {STSmaWrapper(<<x>>) : x \in SmaWide} \cup
  UNION {{STSmaWrapper(t) : t \in [1..n -> SmaCore]} : n \in 0..MaxSma}

\* What an encoding call does is the record [bytes, tlen]: the bytes it
\* writes to the buffer, none when it is given no buffer, and the length it
\* returns.
RECURSIVE Join(_)
\* calls one after the other: tlen += ...
Join(calls) ==
  IF calls = <<>> THEN [bytes |-> <<>>, tlen |-> 0]
  ELSE LET rest == Join(Tail(calls))
       IN  [bytes |-> Head(calls).bytes \o rest.bytes, tlen |-> Head(calls).tlen + rest.tlen]

RECURSIVE LittleEndian(_, _)
\* the w low bytes of v, the lowest first
LittleEndian(v, w) ==
  IF w = 0 THEN <<>> ELSE <<v % 256>> \o LittleEndian(v \div 256, w - 1)

\* an encoder that counts the byte after the data when it has no buffer
taosEncodeBinaryMutant(hasBuf, s, n) ==
  [bytes |-> IF hasBuf THEN SubSeq(s, 1, n) ELSE <<>>,
   tlen |-> IF hasBuf THEN n ELSE n + 1]

\* n bytes of s: written when there is a buffer, counted in any case
taosEncodeBinary(hasBuf, s, n) ==
  [bytes |-> IF hasBuf THEN SubSeq(s, 1, n) ELSE <<>>, tlen |-> n]

\* an integer of w bytes
taosEncodeFixed(hasBuf, v, w) == taosEncodeBinary(hasBuf, LittleEndian(v, w), w)

\* a string behind its length
taosEncodeString(hasBuf, s) ==
  Join(<<taosEncodeFixed(hasBuf, Len(s), 2), taosEncodeBinary(hasBuf, s, Len(s))>>)

\* a function of an index: id, number of column ids, column ids
tEncodeFuncColIds(hasBuf, pFuncColIds) ==
  Join(<<taosEncodeFixed(hasBuf, pFuncColIds.funcId, 2),
         taosEncodeFixed(hasBuf, pFuncColIds.nColIds, 2)>> \o
       [i \in 1..pFuncColIds.nColIds |->
          taosEncodeFixed(hasBuf, pFuncColIds.colIds[i], 2)])

tEncodeTSma(hasBuf, pSma) ==
  Join(<<taosEncodeFixed(hasBuf, pSma.version, 1),
         taosEncodeFixed(hasBuf, pSma.intervalUnit, 1),
         taosEncodeFixed(hasBuf, pSma.slidingUnit, 1),
         taosEncodeString(hasBuf, pSma.indexName),
         taosEncodeString(hasBuf, pSma.timezone),
         taosEncodeFixed(hasBuf, pSma.nFuncColIds, 2),
         taosEncodeFixed(hasBuf, pSma.tableUid, 8),
         taosEncodeFixed(hasBuf, pSma.interval, 8),
         taosEncodeFixed(hasBuf, pSma.sliding, 8),
         taosEncodeFixed(hasBuf, pSma.tagsFilterLen, 4),
         taosEncodeBinary(hasBuf, pSma.tagsFilter, pSma.tagsFilterLen)>> \o
       [j \in 1..pSma.nFuncColIds |-> tEncodeFuncColIds(hasBuf, pSma.funcColIds[j])])

\* tEncodeTSmaWrapper(buf, pSW): the number of indexes, then the indexes
tEncodeTSmaWrapper(hasBuf, pSW) ==
  Join(<<taosEncodeFixed(hasBuf, pSW.number, 4)>> \o
       [i \in 1..pSW.number |-> tEncodeTSma(hasBuf, pSW.tSma[i])])

\* the byte at place i of a buffer; the buffer is calloc'ed, what was not
\* written is zero
ByteAt(b, i) == IF i <= Len(b) THEN b[i] ELSE 0

RECURSIVE FromLittleEndian(_, _, _)
\* the integer held by the w bytes at pos
FromLittleEndian(b, pos, w) ==
  IF w = 0 THEN 0 ELSE ByteAt(b, pos) + 256 * FromLittleEndian(b, pos + 1, w - 1)

\* A decoding step yields the value read and the place after it.
taosDecodeFixed(b, pos, w) == [v |-> FromLittleEndian(b, pos, w), pos |-> pos + w]

\* a decoder that takes the data to end at its first zero byte
taosDecodeBinaryMutant(b, pos, n) ==
  LET zeros == {i \in 1..n : ByteAt(b, pos + i - 1) = 0}
      m == IF zeros = {} THEN n ELSE (CHOOSE i \in zeros : \A k \in zeros : i <= k) - 1
  IN  [v |-> [i \in 1..m |-> ByteAt(b, pos + i - 1)], pos |-> pos + n]

\* n bytes
taosDecodeBinary(b, pos, n) ==
  [v |-> [i \in 1..n |-> ByteAt(b, pos + i - 1)], pos |-> pos + n]

taosDecodeString(b, pos) ==
  LET n == taosDecodeFixed(b, pos, 2)
  IN  taosDecodeBinary(b, n.pos, n.v)

RECURSIVE tDecodeColIds(_, _, _)
\* n column ids
tDecodeColIds(b, pos, n) ==
  IF n = 0 THEN [v |-> <<>>, pos |-> pos]
  ELSE LET id   == taosDecodeFixed(b, pos, 2)
           rest == tDecodeColIds(b, id.pos, n - 1)
       IN  [v |-> <<id.v>> \o rest.v, pos |-> rest.pos]

RECURSIVE tDecodeFuncColIds(_, _, _)
\* n functions
tDecodeFuncColIds(b, pos, n) ==
  IF n = 0 THEN [v |-> <<>>, pos |-> pos]
  ELSE LET funcId  == taosDecodeFixed(b, pos, 2)
           nColIds == taosDecodeFixed(b, funcId.pos, 2)
           colIds  == tDecodeColIds(b, nColIds.pos, nColIds.v)
           rest    == tDecodeFuncColIds(b, colIds.pos, n - 1)
       IN  [v |-> <<[funcId |-> funcId.v, nColIds |-> nColIds.v, colIds |-> colIds.v]>>
                    \o rest.v,
            pos |-> rest.pos]

tDecodeTSma(b, pos) ==
  LET version       == taosDecodeFixed(b, pos, 1)
      intervalUnit  == taosDecodeFixed(b, version.pos, 1)
      slidingUnit   == taosDecodeFixed(b, intervalUnit.pos, 1)
      indexName     == taosDecodeString(b, slidingUnit.pos)
      timezone      == taosDecodeString(b, indexName.pos)
      nFuncColIds   == taosDecodeFixed(b, timezone.pos, 2)
      tableUid      == taosDecodeFixed(b, nFuncColIds.pos, 8)
      interval      == taosDecodeFixed(b, tableUid.pos, 8)
      sliding       == taosDecodeFixed(b, interval.pos, 8)
      tagsFilterLen == taosDecodeFixed(b, sliding.pos, 4)
      tagsFilter    == taosDecodeBinary(b, tagsFilterLen.pos, tagsFilterLen.v)
      funcColIds    == tDecodeFuncColIds(b, tagsFilter.pos, nFuncColIds.v)
  IN  [v |-> [version |-> version.v,
              intervalUnit |-> intervalUnit.v,
              slidingUnit |-> slidingUnit.v,
              indexName |-> indexName.v,
              timezone |-> timezone.v,
              nFuncColIds |-> nFuncColIds.v,
              tableUid |-> tableUid.v,
              interval |-> interval.v,
              sliding |-> sliding.v,
              tagsFilterLen |-> tagsFilterLen.v,
              tagsFilter |-> tagsFilter.v,
              funcColIds |-> funcColIds.v],
       pos |-> funcColIds.pos]

RECURSIVE tDecodeTSmas(_, _, _)
\* n indexes
tDecodeTSmas(b, pos, n) ==
  IF n = 0 THEN [v |-> <<>>, pos |-> pos]
  ELSE LET sma  == tDecodeTSma(b, pos)
           rest == tDecodeTSmas(b, sma.pos, n - 1)
       IN  [v |-> <<sma.v>> \o rest.v, pos |-> rest.pos]

\* tDecodeTSmaWrapper(buf, pSW): what pSW holds afterwards
tDecodeTSmaWrapper(b) ==
  LET number == taosDecodeFixed(b, 1, 4)
  IN  [number |-> number.v, tSma |-> tDecodeTSmas(b, number.pos, number.v).v]

\* the AST variables but `call`
astRest == <<heap, valid, ret, failed, ncalls, noom, held, nrepl, start, clause, order, log, res, h0>>

\* no AST is being built or traversed
InitAstIdle ==
  /\ heap = <<>>
  /\ valid = TRUE
  /\ ret = NULL
  /\ call = "none"
  /\ failed = FALSE
  /\ ncalls = 0
  /\ noom = 0
  /\ held = <<>>
  /\ nrepl = 0
  /\ InitWalkVars

\* the test has constructed a wrapper
InitSma ==
  /\ InitAstIdle
  /\ InitStepVars
  /\ InitCatVars
  /\ tSmaWrapper \in Wrappers
  /\ bufLen = NoLen
  /\ buf = <<>>
  /\ len = NoLen
  /\ dstTSmaWrapper = ZeroWrapper
  /\ pMeta = EmptyMeta
  /\ saved = {}

\* bufLen = tEncodeTSmaWrapper(NULL, &tSmaWrapper)
EncodeNull ==
  /\ bufLen = NoLen
  /\ bufLen' = tEncodeTSmaWrapper(FALSE, tSmaWrapper).tlen
  /\ call' = "tEncodeTSmaWrapper"
  /\ UNCHANGED <<astRest, tSmaWrapper, buf, len, dstTSmaWrapper, pMeta, saved, stepVars, catVars>>

\* buf = calloc(bufLen, 1); len = tEncodeTSmaWrapper(&buf, &tSmaWrapper)
EncodeBuf ==
  /\ bufLen # NoLen
  /\ len = NoLen
  /\ LET e == tEncodeTSmaWrapper(TRUE, tSmaWrapper)
     IN  /\ buf' = e.bytes
         /\ len' = e.tlen
  /\ call' = "tEncodeTSmaWrapper"
  /\ UNCHANGED <<astRest, tSmaWrapper, bufLen, dstTSmaWrapper, pMeta, saved, stepVars, catVars>>

\* tDecodeTSmaWrapper(pSW, &dstTSmaWrapper)
Decode ==
  /\ len # NoLen
  /\ call # "tDecodeTSmaWrapper"
  /\ dstTSmaWrapper' = tDecodeTSmaWrapper(buf)
  /\ call' = "tDecodeTSmaWrapper"
  /\ UNCHANGED <<astRest, tSmaWrapper, bufLen, buf, len, pMeta, saved, stepVars, catVars>>

NextSma ==
  \/ EncodeNull
  \/ EncodeBuf
  \/ Decode

SpecSma == InitSma /\ [][NextSma]_vars

(***************************************************************************)
(* The metadata store: smaDB holds the encoded definitions under their     *)
(* index names, smaIdx the (table uid, index name) pairs that the          *)
(* enumeration by table uid goes through; both in the order of insertion.  *)
(***************************************************************************)
\* what a lookup returns when there is nothing: a null pointer
NullSma == [null |-> TRUE]

RECURSIVE DbGet(_, _)
\* the values stored under key: none or one
DbGet(db, key) ==
  IF db = <<>> THEN <<>>
  ELSE (IF Head(db).key = key THEN <<Head(db).value>> ELSE <<>>) \o DbGet(Tail(db), key)

RECURSIVE DbDel(_, _)
DbDel(db, key) ==
  IF db = <<>> THEN <<>>
  ELSE (IF Head(db).key = key THEN <<>> ELSE <<Head(db)>>) \o DbDel(Tail(db), key)

\* the entry of key is replaced where it is, a new key goes to the end
DbPut(db, key, entry) ==
  IF \E i \in 1..Len(db) : db[i].key = key
    THEN [i \in 1..Len(db) |-> IF db[i].key = key THEN entry ELSE db[i]]
    ELSE Append(db, entry)

metaSaveSmaToDB(m, pSma) ==
  LET size == tEncodeTSma(FALSE, pSma).tlen
      e    == tEncodeTSma(TRUE, pSma)
  IN  [smaDB  |-> DbPut(m.smaDB, pSma.indexName,
                        [key |-> pSma.indexName, value |-> SubSeq(e.bytes, 1, size)]),
       smaIdx |-> DbPut(m.smaIdx, pSma.indexName,
                        [key |-> pSma.indexName, uid |-> pSma.tableUid])]

metaRemoveSmaFromDb(m, indexName) ==
  [smaDB |-> DbDel(m.smaDB, indexName), smaIdx |-> DbDel(m.smaIdx, indexName)]

metaGetSmaInfoByName(m, indexName) ==
  LET found == DbGet(m.smaDB, indexName)
  IN  IF found = <<>> THEN NullSma ELSE tDecodeTSma(found[1], 1).v

RECURSIVE IdxNames(_, _)
\* metaOpenSmaCursor(pMeta, uid) and metaSmaCursorNext until it returns null:
\* the index names it yields
IdxNames(idx, uid) ==
  IF idx = <<>> THEN <<>>
  ELSE (IF Head(idx).uid = uid THEN <<Head(idx).key>> ELSE <<>>) \o IdxNames(Tail(idx), uid)

metaSmaCursor(m, uid) == IdxNames(m.smaIdx, uid)

metaGetSmaInfoByUid(m, uid) ==
  LET names == metaSmaCursor(m, uid)
  IN  IF names = <<>> THEN NullSma
      ELSE [number |-> Len(names),
            tSma |-> [i \in 1..Len(names) |-> metaGetSmaInfoByName(m, names[i])]]

RECURSIVE IdxUids(_)
\* the table uid of every entry of the index
IdxUids(idx) ==
  IF idx = <<>> THEN <<>> ELSE <<Head(idx).uid>> \o IdxUids(Tail(idx))

RECURSIVE Distinct(_)
\* a sequence without the repetitions of its members
Distinct(s) ==
  IF s = <<>> THEN <<>>
  ELSE LET n == Len(s)
           front == Distinct(SubSeq(s, 1, n - 1))
       IN  IF \E i \in 1..Len(front) : front[i] = s[n] THEN front ELSE Append(front, s[n])

\* a list of the uids of the index as it stands, one per entry
metaGetSmaTbUidsMutant(m) == IdxUids(m.smaIdx)

\* metaGetSmaTbUids(pMeta, false): the table uids that have indexes
metaGetSmaTbUids(m) == Distinct(IdxUids(m.smaIdx))

\* metaOpen on an empty directory; the test has the definitions to save
InitMeta ==
  /\ InitAstIdle
  /\ InitStepVars
  /\ InitCatVars
  /\ tSmaWrapper \in Wrappers
  /\ bufLen = NoLen
  /\ buf = <<>>
  /\ len = NoLen
  /\ dstTSmaWrapper = ZeroWrapper
  /\ pMeta = EmptyMeta
  /\ saved = {}

\* metaSaveSmaToDB(pMeta, pSmaCfg)
MetaSaveSmaToDB ==
  /\ \E i \in 1..tSmaWrapper.number :
       LET pSmaCfg == tSmaWrapper.tSma[i]
       IN  /\ pMeta' = metaSaveSmaToDB(pMeta, pSmaCfg)
           /\ saved' = {d \in saved : d.indexName # pSmaCfg.indexName} \cup {pSmaCfg}
  /\ call' = "metaSaveSmaToDB"
  /\ UNCHANGED <<astRest, tSmaWrapper, bufLen, buf, len, dstTSmaWrapper, stepVars, catVars>>

\* metaRemoveSmaFromDb(pMeta, indexName)
MetaRemoveSmaFromDb ==
  /\ \E indexName \in IndexNames :
       /\ pMeta' = metaRemoveSmaFromDb(pMeta, indexName)
       /\ saved' = {d \in saved : d.indexName # indexName}
  /\ call' = "metaRemoveSmaFromDb"
  /\ UNCHANGED <<astRest, tSmaWrapper, bufLen, buf, len, dstTSmaWrapper, stepVars, catVars>>

NextMeta ==
  \/ MetaSaveSmaToDB
  \/ MetaRemoveSmaFromDb

SpecMeta == InitMeta /\ [][NextMeta]_vars

(***************************************************************************)
(* The mock catalog service                                                *)
(* (source/libs/parser/test/mockCatalogService.cpp).  meta_ is a map from  *)
(* database name to a map from table name to the table's MockTableMeta,    *)
(* index_ a map from table name to the vector of its SMA indexes; a map is *)
(* a function whose domain is the set of its keys.  A MockTableMeta is     *)
(* held by value: the builder of the last table names the entry it fills,  *)
(* and is detached when createSubTable puts another object in that entry.  *)
(***************************************************************************)
\* uids the service hands out in one run
MaxUid == 2

\* columns and tags of a table
MaxCols == 1

TSDB_CODE_SUCCESS == "TSDB_CODE_SUCCESS"

TSDB_CODE_TSC_INVALID_TABLE_NAME == "TSDB_CODE_TSC_INVALID_TABLE_NAME"

TSDB_SUPER_TABLE == "TSDB_SUPER_TABLE"

TSDB_CHILD_TABLE == "TSDB_CHILD_TABLE"

TSDB_NORMAL_TABLE == "TSDB_NORMAL_TABLE"

\* the database and tables the callers create, and a database they never do
CatalogDbs == {"test"}

CatalogTables == {"st1", "t1"}

\* the names the callers look up
LookupNames ==
  {[dbname |-> db, tname |-> tb] : db \in CatalogDbs, tb \in CatalogTables}
    \cup {[dbname |-> "no_db", tname |-> "t1"]}

\* tableType, numOfColumns, numOfTags of the tables the callers create
TableShapes ==
  {[tableType |-> TSDB_NORMAL_TABLE, numOfColumns |-> MaxCols, numOfTags |-> 0],
   [tableType |-> TSDB_SUPER_TABLE, numOfColumns |-> MaxCols, numOfTags |-> 1]}

\* name, type, bytes of the column the callers add
ColumnArgs == {[name |-> "c1", type |-> "TSDB_DATA_TYPE_INT", bytes |-> 4]}

\* the SMCreateSmaReq of the callers
SmaReqs ==
  {[stb |-> tb, intervalUnit |-> "s", slidingUnit |-> "s", interval |-> 10, offset |-> 0,
    sliding |-> 10, dstVgId |-> 1, expr |-> "expr"] : tb \in {"st1"}}

\* whether an allocation the call makes succeeds
AllocOk == BOOLEAN

\* std::map: m[k] = v
MapPut(m, k, v) == [x \in DOMAIN m \cup {k} |-> IF x = k THEN v ELSE m[x]]

\* meta_[db][tbname] = v
MetaPut(m, db, tbname, v) ==
  MapPut(m, db, MapPut(IF db \in DOMAIN m THEN m[db] ELSE <<>>, tbname, v))

\* a zeroed SSchema
ZeroSchema == [type |-> "", colId |-> 0, bytes |-> 0, name |-> ""]

\* TableBuilder::createTableBuilder: a zeroed STableMeta with room for
\* numOfColumns + numOfTags SSchema, in a new MockTableMeta
NewTable(tableType, numOfColumns, numOfTags) ==
  [schema |-> [uid |-> 0, tableType |-> tableType, vgId |-> 0,
               tableInfo |-> [numOfTags |-> numOfTags, numOfColumns |-> numOfColumns,
                              precision |-> 0, rowSize |-> 0],
               schema |-> [i \in 1..(numOfColumns + numOfTags) |-> ZeroSchema]],
   vgs |-> <<>>]

\* a getNextId that hands the same id again
getNextIdMutant(id) == [ret |-> id, id_ |-> id]

\* getNextId() { return id_++; }
getNextId(id) == [ret |-> id, id_ |-> id + 1]

\* genEpSet and the SVgroupInfo of createSubTable
genEpSet == [inUse |-> 0, eps |-> <<"dnode_1", "dnode_2", "dnode_3">>]

SVgroupInfo(vgid) == [vgId |-> vgid, epSet |-> genEpSet]

\* tNameGetDbName, tNameGetTableName
tNameGetDbName(pName) == pName.dbname

tNameGetTableName(pName) == pName.tname

getTableMeta(m, db, tbname) ==
  IF db \notin DOMAIN m THEN NoTableMeta
  ELSE IF tbname \notin DOMAIN m[db] THEN NoTableMeta
  ELSE m[db][tbname]

getTableSchemaMeta(m, db, tbname) ==
  LET table == getTableMeta(m, db, tbname)
  IN  IF table = NoTableMeta THEN NoTableMeta ELSE table.schema

\* a copy of the columns without the tags
copyTableSchemaMetaMutant(m, db, tbname, dst, ok) ==
  LET src == getTableSchemaMeta(m, db, tbname)
  IN  IF src = NoTableMeta
        THEN [code |-> TSDB_CODE_TSC_INVALID_TABLE_NAME, dst |-> dst]
      ELSE IF ~ok THEN [code |-> "fault", dst |-> NoTableMeta]
      ELSE [code |-> TSDB_CODE_SUCCESS,
            dst |-> [src EXCEPT !.schema = SubSeq(@, 1, src.tableInfo.numOfColumns)]]

\* copyTableSchemaMeta: the STableMeta and the numOfTags + numOfColumns
\* SSchema behind it are copied into a new block.  When the allocation of
\* the block fails, the test `!dst` (of the address of the unique_ptr, not of
\* the block) does not see it, and memcpy writes through the null pointer.
copyTableSchemaMeta(m, db, tbname, dst, ok) ==
  LET src == getTableSchemaMeta(m, db, tbname)
  IN  IF src = NoTableMeta
        THEN [code |-> TSDB_CODE_TSC_INVALID_TABLE_NAME, dst |-> dst]
      ELSE IF ~ok THEN [code |-> "fault", dst |-> NoTableMeta]
      ELSE [code |-> TSDB_CODE_SUCCESS,
            dst |-> [src EXCEPT !.schema =
                       SubSeq(@, 1, src.tableInfo.numOfTags + src.tableInfo.numOfColumns)]]

\* catalogGetTableMeta(pTableName, pTableMeta), out what *pTableMeta was
catalogGetTableMeta(m, pName, out, ok) ==
  LET r == copyTableSchemaMeta(m, tNameGetDbName(pName), tNameGetTableName(pName),
                               NoTableMeta, ok)
  IN  IF r.code # TSDB_CODE_SUCCESS THEN [code |-> r.code, pTableMeta |-> out]
      ELSE [code |-> TSDB_CODE_SUCCESS, pTableMeta |-> r.dst]

\* the builder does not name the entry (db, tbname) any more
Detached(b, db, tbname) ==
  IF b.db = db /\ b.tbname = tbname THEN NoBuilder ELSE b

\* MockCatalogServiceImpl() : id_(1)
InitCatalog ==
  /\ InitAstIdle
  /\ InitSmaVars
  /\ InitStepVars
  /\ meta_ = <<>>
  /\ index_ = <<>>
  /\ id_ = 1
  /\ builder_ = NoBuilder
  /\ pSName = [dbname |-> "", tname |-> ""]
  /\ pTableMeta = NoTableMeta
  /\ code = "none"
  /\ handed = <<>>

\* the process has not been stopped
Alive == code \notin {"fault", "abort"}

catRest == <<astRest, smaVars, stepVars>>

\* createTableBuilder(db, tbname, tableType, numOfColumns, numOfTags)
CreateTableBuilder ==
  /\ Alive
  /\ id_ <= MaxUid
  /\ \E db \in CatalogDbs, tbname \in CatalogTables, shape \in TableShapes, ok \in AllocOk :
       IF ~ok
         THEN UNCHANGED <<meta_, id_, builder_, handed, code>>
         ELSE LET table == NewTable(shape.tableType, shape.numOfColumns, shape.numOfTags)
                  m1    == MetaPut(meta_, db, tbname, table)
                  g     == getNextId(id_)
                  m2    == [m1 EXCEPT ![db][tbname].schema.uid = g.ret]
              IN  /\ meta_' = m2
                  /\ id_' = g.id_
                  /\ builder_' = [db |-> db, tbname |-> tbname, colId_ |-> 1, rowsize_ |-> 0]
                  /\ handed' = Append(handed, m2[db][tbname].schema.uid)
                  /\ UNCHANGED code
  /\ call' = "createTableBuilder"
  /\ UNCHANGED <<index_, pSName, pTableMeta, catRest>>

\* TableBuilder::addColumn(name, type, bytes)
AddColumn ==
  /\ Alive
  /\ builder_ # NoBuilder
  /\ \E col \in ColumnArgs :
       LET db == builder_.db
           tbname == builder_.tbname
           info == meta_[db][tbname].schema.tableInfo
       IN  IF builder_.colId_ > info.numOfTags + info.numOfColumns
             THEN /\ code' = "abort"
                  /\ UNCHANGED <<meta_, builder_>>
             ELSE /\ meta_' = [meta_ EXCEPT ![db][tbname].schema.schema[builder_.colId_] =
                                 [type |-> col.type, colId |-> builder_.colId_,
                                  bytes |-> col.bytes, name |-> col.name]]
                  /\ builder_' = [builder_ EXCEPT !.colId_ = @ + 1, !.rowsize_ = @ + col.bytes]
                  /\ UNCHANGED code
  /\ call' = "addColumn"
  /\ UNCHANGED <<index_, id_, pSName, pTableMeta, handed, catRest>>

\* TableBuilder::done()
Done ==
  /\ Alive
  /\ builder_ # NoBuilder
  /\ meta_' = [meta_ EXCEPT ![builder_.db][builder_.tbname].schema.tableInfo.rowSize =
                 builder_.rowsize_]
  /\ call' = "done"
  /\ UNCHANGED <<index_, id_, builder_, pSName, pTableMeta, code, handed, catRest>>

\* createSubTable(db, stbname, tbname, vgid)
CreateSubTable ==
  /\ Alive
  /\ id_ <= MaxUid
  /\ \E db \in CatalogDbs, stbname \in CatalogTables, tbname \in CatalogTables,
        ok \in AllocOk :
       LET r == copyTableSchemaMeta(meta_, db, stbname, NoTableMeta, ok)
       IN  IF r.code # TSDB_CODE_SUCCESS
             THEN /\ code' = IF r.code = "fault" THEN "fault" ELSE code
                  /\ UNCHANGED <<meta_, id_, builder_, handed>>
             ELSE LET g  == getNextId(id_)
                      m1 == MetaPut(meta_, db, tbname, [schema |-> r.dst, vgs |-> <<>>])
                      m2 == [m1 EXCEPT ![db][tbname].schema.uid = g.ret]
                      m3 == [m2 EXCEPT ![db][tbname].schema.tableType = TSDB_CHILD_TABLE]
                      m4 == [m3 EXCEPT ![db][tbname].vgs = Append(@, SVgroupInfo(1))]
                      m5 == [m4 EXCEPT ![db][stbname].vgs = Append(@, SVgroupInfo(1))]
                  IN  /\ meta_' = m5
                      /\ id_' = g.id_
                      /\ builder_' = Detached(builder_, db, tbname)
                      /\ handed' = Append(handed, m2[db][tbname].schema.uid)
                      /\ UNCHANGED code
  /\ call' = "createSubTable"
  /\ UNCHANGED <<index_, pSName, pTableMeta, catRest>>

\* createSmaIndex(pReq)
CreateSmaIndex ==
  /\ Alive
  /\ id_ <= MaxUid
  /\ \E pReq \in SmaReqs :
       LET g    == getNextId(id_)
           info == [intervalUnit |-> pReq.intervalUnit, slidingUnit |-> pReq.slidingUnit,
                    interval |-> pReq.interval, offset |-> pReq.offset,
                    sliding |-> pReq.sliding, dstTbUid |-> g.ret,
                    dstVgId |-> pReq.dstVgId, epSet |-> genEpSet, expr |-> pReq.expr]
       IN  /\ index_' = IF pReq.stb \notin DOMAIN index_
                          THEN MapPut(index_, pReq.stb, <<info>>)
                          ELSE [index_ EXCEPT ![pReq.stb] = Append(@, info)]
           /\ id_' = g.id_
           /\ handed' = Append(handed, info.dstTbUid)
  /\ call' = "createSmaIndex"
  /\ UNCHANGED <<meta_, builder_, pSName, pTableMeta, code, catRest>>

\* catalogGetTableMeta(pTableName, &pTableMeta)
CatalogGetTableMeta ==
  /\ Alive
  /\ \E pName \in LookupNames, ok \in AllocOk :
       LET r == catalogGetTableMeta(meta_, pName, pTableMeta, ok)
       IN  /\ pSName' = pName
           /\ code' = r.code
           /\ pTableMeta' = r.pTableMeta
  /\ call' = "catalogGetTableMeta"
  /\ UNCHANGED <<meta_, index_, id_, builder_, handed, catRest>>

NextCatalog ==
  \/ CreateTableBuilder
  \/ AddColumn
  \/ Done
  \/ CreateSubTable
  \/ CreateSmaIndex
  \/ CatalogGetTableMeta

SpecCatalog == InitCatalog /\ [][NextCatalog]_vars

(***************************************************************************)
(* Vocabulary of the properties.                                           *)
(***************************************************************************)
\* the objects the slots of the objects in S point to
Pointees(h, S) == {Deref(h, s) : s \in {t \in Slots(h) : t.o \in S}} \ {NULL}

RECURSIVE Closure(_, _)
Closure(h, S) ==
  LET T == S \cup Pointees(h, S)
  IN  IF T = S THEN S ELSE Closure(h, T)

\* the objects below object n: its children, their children, ...
Desc(h, n) == IF n = NULL THEN {} ELSE Closure(h, Pointees(h, {n}))

\* the nodes (not the lists) of the subtree of n, n included
Subtree(h, n) ==
  IF n = NULL THEN {}
  ELSE {m \in {n} \cup Desc(h, n) : h[m].kind # "LIST"}

WalkCalls ==
  {"nodesWalkExpr", "nodesWalkExprs", "nodesWalkExprPostOrder", "nodesWalkExprsPostOrder"}

RewriteCalls ==
  {"nodesRewriteExpr", "nodesRewriteExprs", "nodesRewriteExprPostOrder",
   "nodesRewriteExprsPostOrder"}

SelectCalls == {"nodesWalkSelectStmt", "nodesRewriteSelectStmt"}

\* the nodes the callback was invoked on
Visited == {log[i].node : i \in 1..Len(log)}

AllContinue == \A i \in 1..Len(log) : log[i].out = DEAL_RES_CONTINUE

\* the first answer of the callback that is not CONTINUE, CONTINUE if none
FirstStop ==
  IF AllContinue THEN DEAL_RES_CONTINUE
  ELSE log[CHOOSE i \in 1..Len(log) :
             /\ log[i].out # DEAL_RES_CONTINUE
             /\ \A j \in 1..(i - 1) : log[j].out = DEAL_RES_CONTINUE].out

\* the pipeline position of the clause that owns the k-th field of a statement
FieldPos(k) == IF k <= 6 THEN k ELSE k + 1

\* the nodes of the k-th field of statement pSelect
ClauseNodes(h, pSelect, k) ==
  Subtree(h, h[pSelect].f[k])

\* the node a traversal of the k-th field comes to first, null if there is none
FirstNode(h, pSelect, k) ==
  LET p == h[pSelect].f[k]
  IN  IF p = NULL THEN NULL
      ELSE IF k \in ListFields
             THEN IF h[p].elems = <<>> THEN NULL ELSE h[p].elems[1]
             ELSE p

SelectDone == call \in SelectCalls /\ start.p # NULL

C2_NeverVisitsEarlierClauses ==
  SelectDone =>
    \A k \in 1..8 :
      FieldPos(k) < ClausePos(clause) => ClauseNodes(h0, start.p, k) \cap Visited = {}

C2_Witness ==
  /\ SelectDone
  /\ clause = "SQL_CLAUSE_GROUP_BY"
  /\ \A k \in 1..4 : h0[start.p].f[k] # NULL
  /\ Len(log) > 0

(***************************************************************************)
(* C3: once the visitor has answered ERROR or END, a walk invokes it on no *)
(* further node: the answer that is not CONTINUE is the last invocation.   *)
(***************************************************************************)
C3_NothingVisitedAfterStop ==
  call \in WalkCalls =>
    \A i \in 1..Len(log) : log[i].out # DEAL_RES_CONTINUE => i = Len(log)

C3_Witness ==
  /\ call = "nodesWalkExprPostOrder"
  /\ Len(log) >= 2
  /\ log[Len(log)].out = DEAL_RES_END
  /\ Subtree(heap, start.p) \ Visited # {}
  /\ start.p \notin Visited

C5_PreBeforePostAfterDescendants ==
  (call \in WalkCalls /\ AllContinue) =>
    \A i, j \in 1..Len(log) :
      log[j].node \in Desc(heap, log[i].node) =>
        /\ order = TRAVERSAL_PREORDER => i < j
        /\ order = TRAVERSAL_POSTORDER => j < i

C5_Witness ==
  /\ call = "nodesWalkExprPostOrder"
  /\ AllContinue
  /\ \E i, j, k \in 1..Len(log) :
       /\ i < j /\ j < k
       /\ log[i].node \in Desc(heap, log[j].node)
       /\ log[j].node \in Desc(heap, log[k].node)

(***************************************************************************)
(* C6: when a PRE-order rewriter puts another node in its slot and answers *)
(* CONTINUE, the engine goes on into the children of the node now in the   *)
(* slot, and never invokes the rewriter on a slot of the displaced node or *)
(* of anything below it.                                                   *)
(***************************************************************************)
C6_DescendsIntoReplacement ==
  (call \in RewriteCalls /\ order = TRAVERSAL_PREORDER) =>
    \A i \in 1..Len(log) :
      (log[i].new # log[i].node /\ log[i].out = DEAL_RES_CONTINUE) =>
        /\ \A j \in (i + 1)..Len(log) :
             log[j].slot.o \notin ({log[i].node} \cup Desc(heap, log[i].node))
        /\ \A c \in 1..Len(heap[log[i].new].f) :
             heap[log[i].new].f[c] # NULL =>
               \/ \E j \in (i + 1)..Len(log) :
                    /\ log[j].slot = [o |-> log[i].new, k |-> "f", i |-> c]
                    /\ \A m \in (i + 1)..(j - 1) :
                         log[m].slot.o \in ({log[i].new} \cup Desc(heap, log[i].new))
               \/ \E j \in (i + 1)..Len(log) :
                    /\ log[j].out # DEAL_RES_CONTINUE
                    /\ \A m \in (i + 1)..j :
                         log[m].slot.o \in ({log[i].new} \cup Desc(heap, log[i].new))
        /\ heap[log[i].new].f = <<>> =>
             \A j \in (i + 1)..Len(log) : log[j].slot.o # log[i].new

C6_Witness ==
  /\ call = "nodesRewriteExpr"
  /\ AllContinue
  /\ \E i \in 1..Len(log) :
       /\ log[i].new # log[i].node
       /\ Desc(heap, log[i].node) # {}
       /\ heap[log[i].new].kind = "OPERATOR"
       /\ Len(log) >= i + 3

(***************************************************************************)
(* C7: once the valid flag of the build context is false, it is false      *)
(* after every further factory call of the build.                          *)
(***************************************************************************)
C7_ValidStaysFalse ==
  [][(~valid) => (~valid')]_vars

(***************************************************************************)
(* C8: a node-producing factory call made when the valid flag is already   *)
(* false returns null.                                                     *)
(***************************************************************************)
NodeProducing ==
  {"createColumnNode", "createValueNode", "createLogicConditionNode",
   "createOperatorNode", "createBetweenAnd", "createNotBetweenAnd",
   "createRealTableNode", "createSelectStmt", "createLimitNode",
   "createStateWindowNode"}

C8_NullWhenInvalid ==
  [][((~valid) /\ call' \in NodeProducing) => (ret' = NULL)]_vars

(***************************************************************************)
(* C9: if the valid flag is true when the build ends, no factory call of   *)
(* the build has failed.                                                   *)
(***************************************************************************)
C9_ValidMeansNoCallFailed ==
  valid => ~failed

(***************************************************************************)
(* C10: in every structure the factory builds, each object is pointed to   *)
(* by at most one slot and lies below no object that lies below it: the    *)
(* structure is a tree.                                                    *)
(***************************************************************************)
C10_EveryNodeHasOneParent ==
  \A n \in 1..Len(heap) :
    /\ Cardinality(Refs(heap, n)) <= 1
    /\ n \notin Desc(heap, n)

\* node cond of heap h is the condition  (e op1 a) type (e op2 b)
IsCondition(h, cond, type, op1, op2, e, a, b) ==
  /\ cond # NULL
  /\ h[cond].kind = "LOGIC_CONDITION"
  /\ h[cond].op = type
  /\ h[cond].f[1] # NULL
  /\ LET l == h[h[cond].f[1]].elems
     IN  /\ Len(l) = 2
         /\ h[l[1]].kind = "OPERATOR" /\ h[l[1]].op = op1 /\ h[l[1]].f = <<e, a>>
         /\ h[l[2]].kind = "OPERATOR" /\ h[l[2]].op = op2 /\ h[l[2]].f = <<e, b>>

\* the last call returned a condition over two operators whose left operand
\* is a node
ReturnedCondition ==
  /\ ret # NULL
  /\ heap[ret].kind = "LOGIC_CONDITION"
  /\ heap[ret].f[1] # NULL
  /\ Len(heap[heap[ret].f[1]].elems) = 2
  /\ heap[heap[heap[ret].f[1]].elems[1]].f[1] # NULL

(***************************************************************************)
(* C11: createBetweenAnd(e, a, b), called in a valid context and with all  *)
(* of its allocations successful, returns the condition                    *)
(* (e >= a) AND (e <= b): an AND whose list holds exactly the two          *)
(* operators, in this order.                                               *)
(***************************************************************************)
C11_BetweenIsConjunction ==
  [][(call' = "createBetweenAnd" /\ valid /\ noom' = noom) =>
       IsCondition(heap', ret', "LOGIC_COND_TYPE_AND",
                   "OP_TYPE_GREATER_EQUAL", "OP_TYPE_LOWER_EQUAL",
                   Top(3).p, Top(2).p, Top(1).p)]_vars

C11_Witness ==
  /\ call = "createBetweenAnd"
  /\ valid /\ ~failed
  /\ ReturnedCondition
  /\ heap[ret].op = "LOGIC_COND_TYPE_AND"

(***************************************************************************)
(* C12: createNotBetweenAnd(e, a, b), called in a valid context and with   *)
(* all of its allocations successful, returns the condition                *)
(* (e < a) OR (e > b): an OR whose list holds exactly the two operators,   *)
(* in this order.                                                          *)
(***************************************************************************)
C12_NotBetweenIsDisjunction ==
  [][(call' = "createNotBetweenAnd" /\ valid /\ noom' = noom) =>
       IsCondition(heap', ret', "LOGIC_COND_TYPE_OR",
                   "OP_TYPE_LOWER_THAN", "OP_TYPE_GREATER_THAN",
                   Top(3).p, Top(2).p, Top(1).p)]_vars

C12_Witness ==
  /\ call = "createNotBetweenAnd"
  /\ valid /\ ~failed
  /\ ReturnedCondition
  /\ heap[ret].op = "LOGIC_COND_TYPE_OR"

\* the step is the call createColumnNode(pTableName, pColumnName) whose
\* allocation has the outcome a[1]
CalledColumnNode(pTableName, pColumnName, a) ==
  /\ call' = "createColumnNode"
  /\ a[1] \/ ColumnNamesPass(pTableName, pColumnName)
  /\ Returns("createColumnNode",
             createColumnNode(Cxt, pTableName, pColumnName, a[1]), 0, "expr", a)

\* the step is the call createRealTableNode(pDbName, pTableName) whose
\* allocation has the outcome a[1]
CalledRealTableNode(pDbName, pTableName, a) ==
  /\ call' = "createRealTableNode"
  /\ a[1] \/ TableNamesPass(pDbName, pTableName)
  /\ Returns("createRealTableNode",
             createRealTableNode(Cxt, pDbName, pTableName, a[1]), 0, "table", a)

(***************************************************************************)
(* C13: createColumnNode and createRealTableNode reject a name whose       *)
(* length is the limit (null is returned and the context is invalid) and   *)
(* accept names one shorter (in a valid context and with the allocation    *)
(* successful, a node is returned and the context is valid): table names   *)
(* against TSDB_TABLE_NAME_LEN, database names against TSDB_DB_NAME_LEN,   *)
(* column names against TSDB_COL_NAME_LEN.                                 *)
(***************************************************************************)
C13_NameBoundary ==
  [][/\ (call' = "createColumnNode") =>
        \A pT \in TableTokens \cup {NoToken}, pC \in ColumnTokens, a \in Allocs(1) :
          CalledColumnNode(pT, pC, a) =>
            /\ (pT = TSDB_TABLE_NAME_LEN \/ pC = TSDB_COL_NAME_LEN) =>
                 (ret' = NULL /\ ~valid')
            /\ (valid /\ a[1] /\ pT = TSDB_TABLE_NAME_LEN - 1
                      /\ pC = TSDB_COL_NAME_LEN - 1) =>
                 (ret' # NULL /\ heap'[ret'].kind = "COLUMN" /\ valid')
     /\ (call' = "createRealTableNode") =>
        \A pD \in DbTokens \cup {NoToken}, pT \in TableTokens, a \in Allocs(1) :
          CalledRealTableNode(pD, pT, a) =>
            /\ (pD = TSDB_DB_NAME_LEN \/ pT = TSDB_TABLE_NAME_LEN) =>
                 (ret' = NULL /\ ~valid')
            /\ (valid /\ a[1] /\ pD = TSDB_DB_NAME_LEN - 1
                      /\ pT = TSDB_TABLE_NAME_LEN - 1) =>
                 (ret' # NULL /\ heap'[ret'].kind = "REAL_TABLE" /\ valid')]_vars

\* a table has been accepted, then a column rejected for its names
C13_Witness ==
  /\ call = "createColumnNode"
  /\ noom = 0
  /\ ret = NULL /\ ~valid
  /\ Len(held) = 2
  /\ Top(2).sort = "table" /\ Top(2).p # NULL

(***************************************************************************)
(* C14: a call of createColumnNode or createRealTableNode with a name that *)
(* violates its length bound returns null, leaves the context invalid and  *)
(* allocates nothing: the heap is what it was before the call.             *)
(***************************************************************************)
C14_BoundViolationAllocatesNothing ==
  [][/\ (call' = "createColumnNode") =>
        \A pT \in TableTokens \cup {NoToken}, pC \in ColumnTokens, a \in Allocs(1) :
          (CalledColumnNode(pT, pC, a)
             /\ (pT = TSDB_TABLE_NAME_LEN \/ pC = TSDB_COL_NAME_LEN)) =>
            (ret' = NULL /\ ~valid' /\ heap' = heap)
     /\ (call' = "createRealTableNode") =>
        \A pD \in DbTokens \cup {NoToken}, pT \in TableTokens, a \in Allocs(1) :
          (CalledRealTableNode(pD, pT, a)
             /\ (pD = TSDB_DB_NAME_LEN \/ pT = TSDB_TABLE_NAME_LEN)) =>
            (ret' = NULL /\ ~valid' /\ heap' = heap)]_vars

\* a name has been rejected after nodes had been built
C14_Witness ==
  /\ call \in {"createColumnNode", "createRealTableNode"}
  /\ noom = 0
  /\ ret = NULL /\ ~valid
  /\ ncalls >= 3
  /\ Len(heap) >= 2

\* node n of heap h has the child list its kind always owns
FullyInitialized(h, n) ==
  h[n].kind = "LOGIC_CONDITION" => h[n].f[1] # NULL

(***************************************************************************)
(* C15: a node-producing factory call, and createNodeList, either returns  *)
(* a node that has its child list, or returns null with the context        *)
(* invalid.                                                                *)
(***************************************************************************)
C15_NodeOrInvalid ==
  (call \in NodeProducing \cup {"createNodeList"}) =>
    \/ (ret # NULL /\ FullyInitialized(heap, ret))
    \/ (ret = NULL /\ ~valid)

\* the factory calls that take what earlier calls returned, and the number of
\* values they take
ClauseAttaching ==
  {"addWhereClause", "addPartitionByClause", "addWindowClauseClause",
   "addGroupByClause", "addHavingClause", "addOrderByClause", "addLimitClause",
   "addSlimitClause"}

Downstream ==
  {"createOperatorNode", "createLogicConditionNode", "setProjectionAlias"}
    \cup ClauseAttaching

Arity(name) == IF name = "setProjectionAlias" THEN 1 ELSE 2

(***************************************************************************)
(* C16: a downstream factory call that is handed null, as a child or as    *)
(* the statement, returns without going through the null pointer and       *)
(* leaves the context invalid.                                             *)
(***************************************************************************)
C16_ToleratesNull ==
  [][(call' \in Downstream /\ \E k \in 1..Arity(call') : Top(k).p = NULL) =>
       (ret' # Fault /\ ~valid')]_vars

(***************************************************************************)
(* C17: the statement createSelectStmt returns has isStar true if and only *)
(* if the projection list it was handed is absent (null); handed a list,   *)
(* an empty one included, it has isStar false.                             *)
(***************************************************************************)
C17_IsStarIffNoProjection ==
  [][(call' = "createSelectStmt" /\ ret' # NULL) =>
       LET pProjectionList == IF Len(held') < Len(held) THEN Top(2).p ELSE NULL
       IN  /\ heap'[ret'].f[8] = pProjectionList
           /\ heap'[ret'].isStar <=> (pProjectionList = NULL)]_vars

\* a statement over a projection list that is present and empty
C17_Witness ==
  /\ call = "createSelectStmt"
  /\ ret # NULL
  /\ heap[ret].f[8] # NULL
  /\ heap[heap[ret].f[8]].elems = <<>>
  /\ ~heap[ret].isStar

CallbackTrace(l) == [i \in 1..Len(l) |-> <<l[i].node, l[i].out>>]

ListCalls ==
  {"nodesWalkExprs", "nodesWalkExprsPostOrder", "nodesRewriteExprs",
   "nodesRewriteExprsPostOrder"}

\* the rewriter of the last traversal has replaced no node
NothingReplaced == \A i \in 1..Len(log) : log[i].new = log[i].node

\* the runs of a walk, and of a rewrite whose rewriter replaces nothing, of
\* what the last traversal was started on, as the heap then was
WalkRuns ==
  IF call \in ListCalls
    THEN walkList(Run0(h0, 0, MaxStops), start.p, order)
    ELSE walkNode(Run0(h0, 0, MaxStops), start.p, order)

RewriteRuns ==
  IF call \in ListCalls
    THEN rewriteList(Run0(h0, 0, MaxStops), start.p, order)
    ELSE rewriteNode(Run0(h0, 0, MaxStops), RootSlot(h0), order)

(***************************************************************************)
(* C19: a rewrite whose rewriter replaces nothing is a walk: it invokes    *)
(* the callback on the nodes a walk of the same tree in the same order     *)
(* invokes it on when the answers are the same, in the same sequence, and  *)
(* has the same outcome; and every walk is such a rewrite.                 *)
(***************************************************************************)
C19_RewriteWithoutReplacementIsWalk ==
  /\ (call \in RewriteCalls /\ NothingReplaced) =>
       \E r \in WalkRuns : CallbackTrace(r.log) = CallbackTrace(log) /\ r.res = res
  /\ (call \in WalkCalls) =>
       \E r \in RewriteRuns : CallbackTrace(r.log) = CallbackTrace(log) /\ r.res = res

\* a rewrite that kept every node and was stopped after three nodes or more
C19_Witness ==
  /\ call \in RewriteCalls
  /\ NothingReplaced
  /\ Len(log) >= 3
  /\ res = DEAL_RES_END

(***************************************************************************)
(* C20: a rewrite leaves every list as long as it was, and each cell of a  *)
(* list holds the element it held, or the node the rewriter put into this  *)
(* very cell.                                                              *)
(***************************************************************************)
C20_ListShapeIsFixed ==
  (call \in RewriteCalls) =>
    \A l \in 1..Len(h0) :
      /\ Len(heap[l].elems) = Len(h0[l].elems)
      /\ \A i \in 1..Len(h0[l].elems) :
           \/ heap[l].elems[i] = h0[l].elems[i]
           \/ \E j \in 1..Len(log) :
                /\ log[j].slot = [o |-> l, k |-> "e", i |-> i]
                /\ log[j].new = heap[l].elems[i]

\* a list of two whose second element was replaced and whose first was kept
C20_Witness ==
  /\ call \in {"nodesRewriteExprs", "nodesRewriteExprsPostOrder"}
  /\ Len(h0[start.p].elems) >= 2
  /\ heap[start.p].elems[1] = h0[start.p].elems[1]
  /\ heap[start.p].elems[2] # h0[start.p].elems[2]

\* the rewriter has put the node now in slot s of the heap into it
WrittenByRewriter(s) ==
  \E j \in 1..Len(log) :
    /\ log[j].slot = s
    /\ log[j].new # log[j].node
    /\ log[j].new = Deref(heap, s)

(***************************************************************************)
(* C21: a rewrite destroys no object and writes to no slot but through the *)
(* rewriter: after the pass every object of the tree is still there, each  *)
(* slot holds what it held or what the rewriter put into it, and when the  *)
(* rewriter replaced nothing the heap is what it was.                      *)
(***************************************************************************)
C21_EngineWritesNothing ==
  (call \in RewriteCalls) =>
    /\ Len(heap) >= Len(h0)
    /\ \A n \in 1..Len(h0) :
         /\ heap[n].kind = h0[n].kind
         /\ heap[n].op = h0[n].op
         /\ Len(heap[n].f) = Len(h0[n].f)
         /\ Len(heap[n].elems) = Len(h0[n].elems)
    /\ \A s \in Slots(h0) : Deref(heap, s) = Deref(h0, s) \/ WrittenByRewriter(s)
    /\ NothingReplaced => heap = h0

\* a node with children has been displaced and is still what it was
C21_Witness ==
  /\ call \in RewriteCalls
  /\ \E j \in 1..Len(log) :
       /\ log[j].new # log[j].node
       /\ Desc(h0, log[j].node) # {}
       /\ heap[log[j].node] = h0[log[j].node]
       /\ Refs(heap, log[j].node) = {}

\* the traversal was started on a node of a kind whose children the data
\* model lists, or on a list
OfDataModel == start.p # NULL /\ h0[start.p].kind # "IS_NULL_CONDITION"

(***************************************************************************)
(* C22: a walk whose visitor always answers CONTINUE invokes the visitor   *)
(* on every node that can be reached from the root through child fields    *)
(* and lists, the subquery of a TempTable and the two sides of a           *)
(* SetOperator included.                                                   *)
(***************************************************************************)
C22_VisitsEveryReachableNode ==
  (call \in WalkCalls /\ AllContinue /\ OfDataModel) =>
    Subtree(h0, start.p) \subseteq Visited


\* the field of the statement whose expression holds node n
FieldOf(n) == CHOOSE k \in 1..8 : n \in ClauseNodes(h0, start.p, k)

\* every visit is to a node of a clause of the statement
VisitsWithinClauses ==
  \A i \in 1..Len(log) : \E k \in 1..8 : log[i].node \in ClauseNodes(h0, start.p, k)

(***************************************************************************)
(* C23: in a select traversal whose callback always answers CONTINUE the   *)
(* visits come clause by clause in the order from-table, where predicate,  *)
(* partition-by list, window, group-by list, having predicate, order-by    *)
(* list, projection list, whatever the starting clause; started at FROM    *)
(* the traversal comes to every one of these clauses that is present.      *)
(***************************************************************************)
C23_ClausesInPipelineOrder ==
  (SelectDone /\ AllContinue) =>
    /\ VisitsWithinClauses
    /\ \A i, j \in 1..Len(log) :
         i < j => FieldOf(log[i].node) <= FieldOf(log[j].node)
    /\ clause = "SQL_CLAUSE_FROM" =>
         \A k \in 1..8 : ClauseNodes(h0, start.p, k) \subseteq Visited

\* a statement with every clause present, traversed from FROM
C23_Witness ==
  /\ SelectDone
  /\ AllContinue
  /\ clause = "SQL_CLAUSE_FROM"
  /\ \A k \in 1..8 : h0[start.p].f[k] # NULL
  /\ log[1].node = h0[start.p].f[1]
  /\ FieldOf(log[Len(log)].node) = 8

(***************************************************************************)
(* C24: a select traversal started at DISTINCT invokes the callback on     *)
(* nodes of the order-by list and of the projection list only, on all of   *)
(* them when the callback always answers CONTINUE, and on those of the     *)
(* order-by list first: the DISTINCT step itself shows the callback        *)
(* nothing.                                                                *)
(***************************************************************************)
C24_DistinctIsPositionMarker ==
  (SelectDone /\ clause = "SQL_CLAUSE_DISTINCT") =>
    LET orderBy == ClauseNodes(h0, start.p, 7)
        projection == ClauseNodes(h0, start.p, 8)
    IN  /\ Visited \subseteq orderBy \cup projection
        /\ AllContinue => Visited = orderBy \cup projection
        /\ \A i, j \in 1..Len(log) :
             (i < j /\ log[i].node \in projection) => log[j].node \in projection

\* started at DISTINCT on a statement with a having predicate, an order-by
\* list and a projection list
C24_Witness ==
  /\ SelectDone
  /\ clause = "SQL_CLAUSE_DISTINCT"
  /\ \A k \in 6..8 : h0[start.p].f[k] # NULL
  /\ AllContinue
  /\ Len(log) = 4
  /\ h0[start.p].f[6] \notin Visited


\* the first answer in log l that is not CONTINUE, CONTINUE if there is none
ResultOf(l) ==
  IF \A i \in 1..Len(l) : l[i].out = DEAL_RES_CONTINUE THEN DEAL_RES_CONTINUE
  ELSE l[CHOOSE i \in 1..Len(l) :
           /\ l[i].out # DEAL_RES_CONTINUE
           /\ \A j \in 1..(i - 1) : l[j].out = DEAL_RES_CONTINUE].out

\* what the last traversal was started on, and the nodes and lists below it
Parts == IF start.p = NULL THEN {} ELSE {start.p} \cup Desc(h0, start.p)

\* the runs of the engine of the last traversal (the walk or the rewrite, in
\* its order) on part n of the tree as it was
EngineRuns(n) ==
  IF call \in WalkCalls
    THEN IF h0[n].kind = "LIST"
           THEN walkList(Run0(h0, 0, MaxStops), n, order)
           ELSE walkNode(Run0(h0, 0, MaxStops), n, order)
    ELSE IF h0[n].kind = "LIST"
           THEN rewriteList(Run0(h0, MaxRepl, MaxStops), n, order)
           ELSE UNION {rewriteNode(Run0(h0, MaxRepl, MaxStops), s, order)
                         : s \in Refs(h0, n)}

(***************************************************************************)
(* C29: what walkNode, rewriteNode, walkList and rewriteList return for a  *)
(* node or a list, at the root of a traversal or below it, is the first    *)
(* answer of the callback in that subtree that is not CONTINUE, and        *)
(* CONTINUE when every answer was CONTINUE.  The runs of the engine on the *)
(* parts of a tree depend on the tree, the entry point and the order only: *)
(* they are enumerated once for each, in the state that the traversal      *)
(* without a stop and without a replacement ends in.                       *)
(***************************************************************************)
C29_ResultIsFirstStop ==
  (call \in WalkCalls \cup RewriteCalls) =>
    /\ res = ResultOf(log)
    /\ (AllContinue /\ NothingReplaced) =>
         \A n \in Parts : \A r \in EngineRuns(n) : r.res = ResultOf(r.log)

\* a rewrite over a tree with a node below the root whose own rewrite can
\* end with END after a CONTINUE
C29_Witness ==
  /\ call \in RewriteCalls
  /\ AllContinue
  /\ NothingReplaced
  /\ Len(log) >= 3
  /\ \E n \in Parts \ {start.p} : \E r \in EngineRuns(n) :
       /\ h0[n].kind # "LIST"
       /\ r.res = DEAL_RES_END
       /\ Len(r.log) >= 2

\* the places in the log of the visits to the nodes of the subtree of p
VisitsBelow(p) == {i \in 1..Len(log) : log[i].node \in Subtree(h0, p)}

\* every visit below p comes before every visit below q
AllBefore(p, q) == \A i \in VisitsBelow(p) : \A j \in VisitsBelow(q) : i < j

\* the kinds whose child layout is a sequence of pointer fields: left, right;
\* left, right, on-condition; expr, column; column, gap; interval, offset,
\* sliding, fill, column
LayoutKinds ==
  {"OPERATOR", "JOIN_TABLE", "STATE_WINDOW", "SESSION_WINDOW", "INTERVAL_WINDOW"}

(***************************************************************************)
(* C30: a traversal whose callback always answers CONTINUE and replaces    *)
(* nothing comes to the children of a node in the order of the node's      *)
(* layout: everything below an earlier field of an Operator, JoinTable,    *)
(* StateWindow, SessionWindow or IntervalWindow before everything below a  *)
(* later one, and everything below an earlier element of a list before     *)
(* everything below a later one.                                           *)
(***************************************************************************)
C30_ChildrenInLayoutOrder ==
  (call \in WalkCalls \cup RewriteCalls /\ AllContinue /\ NothingReplaced) =>
    \A n \in Parts :
      /\ h0[n].kind \in LayoutKinds =>
           \A a, b \in 1..Len(h0[n].f) : a < b => AllBefore(h0[n].f[a], h0[n].f[b])
      /\ h0[n].kind = "LIST" =>
           \A a, b \in 1..Len(h0[n].elems) :
             a < b => AllBefore(h0[n].elems[a], h0[n].elems[b])

\* a join whose three children have all been visited
C30_Witness ==
  /\ call \in WalkCalls \cup RewriteCalls
  /\ AllContinue
  /\ NothingReplaced
  /\ h0[start.p].kind = "JOIN_TABLE"
  /\ \A a \in 1..3 : h0[start.p].f[a] \in Visited


C27_DecodeOfEncodeIsIdentity ==
  (call = "tDecodeTSmaWrapper") =>
    /\ dstTSmaWrapper.number = tSmaWrapper.number
    /\ Len(dstTSmaWrapper.tSma) = tSmaWrapper.number
    /\ \A i \in 1..tSmaWrapper.number :
         LET pSma == tSmaWrapper.tSma[i]
             qSma == dstTSmaWrapper.tSma[i]
         IN  /\ qSma.version = pSma.version
             /\ qSma.intervalUnit = pSma.intervalUnit
             /\ qSma.slidingUnit = pSma.slidingUnit
             /\ qSma.indexName = pSma.indexName
             /\ qSma.timezone = pSma.timezone
             /\ qSma.nFuncColIds = pSma.nFuncColIds
             /\ qSma.tableUid = pSma.tableUid
             /\ qSma.interval = pSma.interval
             /\ qSma.sliding = pSma.sliding
             /\ qSma.tagsFilterLen = pSma.tagsFilterLen
             /\ qSma.tagsFilter = pSma.tagsFilter
             /\ Len(qSma.funcColIds) = pSma.nFuncColIds
             /\ \A j \in 1..pSma.nFuncColIds :
                  /\ qSma.funcColIds[j].funcId = pSma.funcColIds[j].funcId
                  /\ qSma.funcColIds[j].nColIds = pSma.funcColIds[j].nColIds
                  /\ qSma.funcColIds[j].colIds = pSma.funcColIds[j].colIds

\* a decoded index with two functions, one of them with column ids, and a
\* filter that has a zero byte in it
C27_Witness ==
  /\ call = "tDecodeTSmaWrapper"
  /\ \E i \in 1..dstTSmaWrapper.number :
       LET qSma == dstTSmaWrapper.tSma[i]
       IN  /\ qSma.nFuncColIds = 2
           /\ \E j \in 1..2 : qSma.funcColIds[j].nColIds > 0
           /\ qSma.tagsFilterLen = 2
           /\ \E k \in 1..2 : qSma.tagsFilter[k] = 0

\* the index names saved for table uid and not removed since
NamesSaved(uid) == {d.indexName : d \in {x \in saved : x.tableUid = uid}}

\* how many times v is in sequence s
Occurrences(s, v) == Cardinality({i \in 1..Len(s) : s[i] = v})

(***************************************************************************)
(* C28: in the metadata store, the lookup by name gives for every name the *)
(* definition last saved under it; the cursor and the wrapper of a table   *)
(* uid give as many indexes as distinct names are saved for that uid, each *)
(* of that uid; and the list of the table uids that have indexes has that  *)
(* uid exactly once.                                                       *)
(***************************************************************************)
C28_StoreKeyedByNameAndUid ==
  /\ \A d \in saved : metaGetSmaInfoByName(pMeta, d.indexName) = d
  /\ \A uid \in TableUids :
       LET names  == NamesSaved(uid)
           cursor == metaSmaCursor(pMeta, uid)
           pSW    == metaGetSmaInfoByUid(pMeta, uid)
       IN  names # {} =>
             /\ Len(cursor) = Cardinality(names)
             /\ {cursor[i] : i \in 1..Len(cursor)} = names
             /\ pSW # NullSma
             /\ pSW.number = Cardinality(names)
             /\ Len(pSW.tSma) = pSW.number
             /\ \A i \in 1..pSW.number : pSW.tSma[i].tableUid = uid
             /\ Occurrences(metaGetSmaTbUids(pMeta), uid) = 1

\* two definitions are saved under distinct names for one table
C28_Witness ==
  /\ call = "metaSaveSmaToDB"
  /\ \E uid \in TableUids :
       /\ Cardinality(NamesSaved(uid)) = 2
       /\ metaGetSmaInfoByUid(pMeta, uid).number = 2
       /\ Len(metaGetSmaTbUids(pMeta)) = 1

(***************************************************************************)
(* The engine taken step by step.  walkNode, walkList, rewriteNode and     *)
(* rewriteList call themselves and each other; every call that has not    *)
(* returned has a frame on the stack of the thread,                        *)
(*   [fn, p, slot, pc, i]                                                  *)
(* fn: "node" for walkNode and rewriteNode, "list" for walkList and        *)
(* rewriteList; p: the node or list of the call; slot: the slot a          *)
(* rewriteNode was handed; pc: "entry" before the null check, "kids" in    *)
(* the switch or the loop, "back" while a call it made has not returned;   *)
(* i: the child it is at.  The stack of a thread is finite: a call that    *)
(* finds no room for its frame stops the process.                          *)
(***************************************************************************)
\* frames the stack of the thread has room for: the deepest sample tree and
\* one more level
MaxDepth == 5

\* The rewriters of the traversals taken step by step.  "keep" replaces
\* nothing; "fold" puts a leaf in the place of every operator; "expand" puts
\* an operator over two values in the place of every column; "grow" puts an
\* operator over two values in the place of every value; "wrap" puts a
\* RAW_EXPR over the column itself in the place of every column; "drop"
\* takes every column out of its slot and leaves the slot null.
Rewriters == {"keep", "fold", "expand", "grow", "wrap", "drop"}

\* the heap after the rewriter has put a RAW_EXPR over the node of the slot
\* in its place
Wrapped(h, slot) ==
  Store(Append(h, [nodesMakeNode("RAW_EXPR", 1) EXCEPT !.f = <<Deref(h, slot)>>]),
        slot, Len(h) + 1)

\* the heap after rewriter r has been called on the slot
Rewrites(r, h, slot) ==
  LET kind == h[Deref(h, slot)].kind
  IN  CASE r = "fold" /\ kind = "OPERATOR" -> Replaced(h, slot, "leaf")
        [] r = "expand" /\ kind = "COLUMN" -> Replaced(h, slot, "inner")
        [] r = "grow" /\ kind = "VALUE"    -> Replaced(h, slot, "inner")
        [] r = "wrap" /\ kind = "COLUMN"   -> Wrapped(h, slot)
        [] r = "drop" /\ kind = "COLUMN"   -> Store(h, slot, NULL)
        [] OTHER                           -> h

\* the sample trees of the traversals taken step by step
StepSamples ==
  {h \in Samples : h[Root(h)].kind \in {"VALUE", "OPERATOR", "LOGIC_CONDITION", "ORDER_BY_EXPR"}}

IsRewrite == call \in RewriteCalls

TopFrame == stack[Len(stack)]

\* the stack with frame f in the place of the top frame
SetTop(f) == [stack EXCEPT ![Len(stack)] = f]

\* the frame of a call of walkNode on the node of the slot, or of
\* rewriteNode on the slot
NodeFrame(slot) ==
  [fn |-> "node",
   p |-> IF IsRewrite THEN NULL ELSE Deref(heap, slot),
   slot |-> slot, pc |-> "entry", i |-> 0]

\* the frame of a call of walkList or rewriteList
ListFrame(pNodeList) ==
  [fn |-> "list", p |-> pNodeList, slot |-> NoSlot, pc |-> "entry", i |-> 0]

\* pNode of walkNode, *pRawNode of rewriteNode, pNodeList of the list functions
Pointer(f) ==
  IF f.fn = "node" /\ IsRewrite THEN Deref(heap, f.slot) ELSE f.p

\* the calls the body of frame f makes, in order: the cases of the switch,
\* the cells of FOREACH
Kids(f) ==
  IF f.fn = "list"
    THEN [k \in 1..Len(heap[f.p].elems) |-> NodeFrame([o |-> f.p, k |-> "e", i |-> k])]
  ELSE IF heap[f.p].kind \in ListKinds
    THEN <<ListFrame(heap[f.p].f[1])>>
  ELSE LET fields == ChildFields(heap[f.p].kind)
       IN  [k \in 1..Len(fields) |-> NodeFrame([o |-> f.p, k |-> "f", i |-> fields[k]])]

\* a caller that goes on to the next child whatever the last one returned
GoesOnMutant(result) == TRUE

\* DEAL_RES_ERROR != res && DEAL_RES_END != res: the caller goes on
GoesOn(result) == ~Stops(result)

\* what a step leaves alone
stepRest == <<valid, failed, ncalls, noom, held, nrepl, clause, smaVars, catVars>>

\* return result
Pops(result) ==
  /\ stack' = SubSeq(stack, 1, Len(stack) - 1)
  /\ res' = result

\* walker(pNode, pContext) or rewriter(pRawNode, pContext) answers out
Calls(out) ==
  LET node == Pointer(TopFrame)
      h1   == IF IsRewrite THEN Rewrites(rewriter, heap, TopFrame.slot) ELSE heap
  IN  /\ heap' = h1
      /\ log' = Append(log, [slot |-> IF IsRewrite THEN TopFrame.slot ELSE NoSlot,
                             node |-> node,
                             out |-> out,
                             new |-> IF IsRewrite THEN Deref(h1, TopFrame.slot) ELSE node])

InitSteps ==
  /\ heap \in StepSamples
  /\ valid = TRUE
  /\ ret = NULL
  /\ call = "none"
  /\ failed = FALSE
  /\ ncalls = 0
  /\ noom = 0
  /\ held = <<>>
  /\ nrepl = 0
  /\ InitWalkVars
  /\ InitSmaVars
  /\ InitStepVars
  /\ InitCatVars

\* a public entry point is called: its one statement calls the engine
Begins ==
  /\ pc = "idle"
  /\ \E name \in WalkCalls \cup RewriteCalls :
       LET onList == name \in ListCalls
           first  == IF onList THEN ListFrame(RootList(heap))
                     ELSE [fn |-> "node",
                           p |-> IF name \in RewriteCalls THEN NULL ELSE Root(heap),
                           slot |-> IF name \in RewriteCalls THEN RootSlot(heap) ELSE NoSlot,
                           pc |-> "entry", i |-> 0]
       IN  /\ onList => RootList(heap) # NULL
           /\ call' = name
           /\ start' = IF onList THEN [p |-> RootList(heap), slot |-> NoSlot]
                       ELSE [p |-> Root(heap), slot |-> first.slot]
           /\ order' = IF name \in {"nodesWalkExpr", "nodesWalkExprs",
                                    "nodesRewriteExpr", "nodesRewriteExprs"}
                         THEN TRAVERSAL_PREORDER ELSE TRAVERSAL_POSTORDER
           /\ rewriter' \in IF name \in RewriteCalls THEN Rewriters ELSE {"none"}
           /\ stack' = <<first>>
  /\ pc' = "running"
  /\ h0' = heap
  /\ log' = <<>>
  /\ res' = DEAL_RES_CONTINUE
  /\ UNCHANGED <<heap, ret, stepRest>>

\* if (NULL == pNode) return DEAL_RES_CONTINUE; FOREACH over no list
ReturnsOnNull ==
  /\ pc = "running" /\ stack # <<>>
  /\ TopFrame.pc = "entry"
  /\ Pointer(TopFrame) = NULL
  /\ Pops(DEAL_RES_CONTINUE)
  /\ UNCHANGED <<heap, ret, call, start, order, rewriter, pc, h0, log, stepRest>>

\* if (TRAVERSAL_PREORDER == order) { res = walker(...); if (DEAL_RES_CONTINUE
\* != res) return res; } pNode = *pRawNode
CallsBefore ==
  /\ pc = "running" /\ stack # <<>>
  /\ TopFrame.fn = "node" /\ TopFrame.pc = "entry"
  /\ Pointer(TopFrame) # NULL
  /\ VisitsBefore(order)
  /\ \E out \in EDealRes :
       /\ Calls(out)
       /\ IF Stops(out) THEN Pops(out)
          ELSE /\ stack' = LET pNode == IF IsRewrite
                                           THEN NodeOfSlot([h |-> heap], [h |-> heap'],
                                                           TopFrame.slot)
                                           ELSE TopFrame.p
                            IN  SetTop([TopFrame EXCEPT
                                          !.pc = IF pNode = NULL THEN "null" ELSE "kids",
                                          !.i = 1, !.p = pNode])
               /\ res' = out
  /\ UNCHANGED <<ret, call, start, order, rewriter, pc, h0, stepRest>>

\* the order is not PRE, or the call is one of a list function: the body
\* comes to its switch or its loop
EntersBody ==
  /\ pc = "running" /\ stack # <<>>
  /\ TopFrame.pc = "entry"
  /\ Pointer(TopFrame) # NULL
  /\ TopFrame.fn = "list" \/ ~VisitsBefore(order)
  /\ stack' = SetTop([TopFrame EXCEPT !.pc = "kids", !.i = 1, !.p = Pointer(TopFrame)])
  /\ res' = DEAL_RES_CONTINUE
  /\ UNCHANGED <<heap, ret, call, start, order, rewriter, pc, h0, log, stepRest>>

\* the body calls walkNode, rewriteNode, walkList or rewriteList on its
\* next child
Descends ==
  /\ pc = "running" /\ stack # <<>>
  /\ TopFrame.pc = "kids"
  /\ TopFrame.i <= Len(Kids(TopFrame))
  /\ Len(stack) < MaxDepth
  /\ stack' = Append(SetTop([TopFrame EXCEPT !.pc = "back"]), Kids(TopFrame)[TopFrame.i])
  /\ UNCHANGED <<heap, ret, call, start, order, rewriter, pc, h0, log, res, stepRest>>

\* the same call when the stack has no room for its frame
Overflows ==
  /\ pc = "running" /\ stack # <<>>
  /\ TopFrame.pc = "kids"
  /\ TopFrame.i <= Len(Kids(TopFrame))
  /\ Len(stack) >= MaxDepth
  /\ pc' = "overflow"
  /\ ret' = Fault
  /\ UNCHANGED <<heap, call, start, order, rewriter, stack, h0, log, res, stepRest>>

\* switch (nodeType(pNode)) when the rewriter has left *pRawNode null: the
\* type is read through the null pointer.  The process is stopped there, or
\* the read yields a value that is no case of the switch.
ReadsThroughNull ==
  /\ pc = "running" /\ stack # <<>>
  /\ TopFrame.pc = "null"
  /\ \/ /\ pc' = "fault"
        /\ ret' = Fault
        /\ UNCHANGED <<stack, res>>
     \/ /\ Pops(res)
        /\ UNCHANGED <<pc, ret>>
  /\ UNCHANGED <<heap, call, start, order, rewriter, h0, log, stepRest>>

\* the call has returned res: the body goes on to the next child, or
\* leaves the switch (returns from the loop) with res
Resumes ==
  /\ pc = "running" /\ stack # <<>>
  /\ TopFrame.pc = "back"
  /\ IF GoesOn(res)
       THEN /\ stack' = SetTop([TopFrame EXCEPT !.pc = "kids", !.i = @ + 1])
            /\ res' = res
       ELSE Pops(res)
  /\ UNCHANGED <<heap, ret, call, start, order, rewriter, pc, h0, log, stepRest>>

\* if (... && TRAVERSAL_POSTORDER == order) res = walker(...); return res
CallsAfter ==
  /\ pc = "running" /\ stack # <<>>
  /\ TopFrame.fn = "node" /\ TopFrame.pc = "kids"
  /\ TopFrame.i > Len(Kids(TopFrame))
  /\ VisitsAfter(order)
  /\ \E out \in EDealRes :
       /\ Calls(out)
       /\ Pops(out)
  /\ UNCHANGED <<ret, call, start, order, rewriter, pc, h0, stepRest>>

\* return res after the last child; return DEAL_RES_CONTINUE after the loop
LeavesBody ==
  /\ pc = "running" /\ stack # <<>>
  /\ TopFrame.pc = "kids"
  /\ TopFrame.i > Len(Kids(TopFrame))
  /\ TopFrame.fn = "list" \/ ~VisitsAfter(order)
  /\ Pops(IF TopFrame.fn = "list" THEN DEAL_RES_CONTINUE ELSE res)
  /\ UNCHANGED <<heap, ret, call, start, order, rewriter, pc, h0, log, stepRest>>

\* the engine has returned to the entry point, and the entry point returns
\* (void: it hands nothing back)
EntryPointReturns ==
  /\ pc = "running" /\ stack = <<>>
  /\ pc' = "returned"
  /\ UNCHANGED <<heap, ret, call, start, order, rewriter, stack, h0, log, res, stepRest>>

NextSteps ==
  \/ Begins
  \/ ReturnsOnNull
  \/ CallsBefore
  \/ EntersBody
  \/ Descends
  \/ Overflows
  \/ ReadsThroughNull
  \/ Resumes
  \/ CallsAfter
  \/ LeavesBody
  \/ EntryPointReturns

\* The engine is one thread that nothing suspends: a step that can be taken
\* is taken.
SpecSteps == InitSteps /\ [][NextSteps]_vars /\ WF_vars(NextSteps)

\* the rewriter has put a node into a slot of a node that it had put in
\* itself, or below one, in a PRE-order rewrite
ReplacesInsideReplacement ==
  /\ call \in RewriteCalls
  /\ order = TRAVERSAL_PREORDER
  /\ \E i, j \in 1..Len(log) :
       /\ i < j
       /\ log[i].new # log[i].node
       /\ log[j].new # log[j].node
       /\ log[j].slot.o \in {log[i].new} \cup Desc(heap, log[i].new)

\* the rewriter of a PRE-order rewrite has answered CONTINUE and left its
\* slot null
LeavesSlotNull ==
  /\ call \in RewriteCalls
  /\ order = TRAVERSAL_PREORDER
  /\ \E i \in 1..Len(log) :
       /\ log[i].new = NULL
       /\ log[i].out = DEAL_RES_CONTINUE

\* no answer but the last is ERROR or END
OnlyLastStops == \A j \in 1..(Len(log) - 1) : log[j].out = DEAL_RES_CONTINUE

C31_NoLaterClauseAfterStop ==
  SelectDone =>
    \A i, j \in 1..Len(log) :
      (i < j /\ log[i].out # DEAL_RES_CONTINUE)
        => FieldOf(log[j].node) <= FieldOf(log[i].node)

\* the factory calls that build expressions
ExpressionBuilding ==
  {"createColumnNode", "createValueNode", "createLogicConditionNode",
   "createOperatorNode", "createBetweenAnd", "createNotBetweenAnd"}

(***************************************************************************)
(* C32: a walk, with a visitor that always answers CONTINUE, of the        *)
(* expression a factory call has returned invokes the visitor exactly once *)
(* on each node of the expression.                                         *)
(***************************************************************************)
C32_EachNodeVisitedOnce ==
  (call \in ExpressionBuilding /\ ret # NULL) =>
    \A x \in nodesWalkExpr(Run0(heap, 0, 0), ret) :
      \A n \in Subtree(heap, ret) :
        Cardinality({i \in 1..Len(x.run.log) : x.run.log[i].node = n}) = 1

(***************************************************************************)
(* C33: a rewriteNode whose PRE-order rewriter has answered CONTINUE and   *)
(* left the slot null does not read through the slot: no traversal is      *)
(* stopped by a read through a null pointer.                               *)
(***************************************************************************)
C33_NullSlotIsNotRead == pc # "fault"

\* the slots rewriteNode hands on for the children of node n: the fields of
\* its case of the switch, the cells of its list
ChildSlots(h, n) ==
  IF h[n].kind \in ListKinds
    THEN IF h[n].f[1] = NULL THEN {}
         ELSE {[o |-> h[n].f[1], k |-> "e", i |-> c] : c \in 1..Len(h[h[n].f[1]].elems)}
    ELSE {[o |-> n, k |-> "f", i |-> ChildFields(h[n].kind)[c]]
            : c \in 1..Len(ChildFields(h[n].kind))}

(***************************************************************************)
(* C34: in a POST-order rewrite the rewriter is invoked on a slot after    *)
(* it has been invoked on every child of the node in the slot and on       *)
(* everything below, and it is never invoked on a slot of a node it has    *)
(* put in, nor of anything below such a node.                              *)
(***************************************************************************)
C34_PostOrderRewritesAfterChildren ==
  (call \in RewriteCalls /\ order = TRAVERSAL_POSTORDER) =>
    \A i \in 1..Len(log) :
      /\ log[i].node \in 1..Len(h0)
      /\ \A s \in ChildSlots(h0, log[i].node) :
           Deref(h0, s) # NULL => \E j \in 1..(i - 1) : log[j].slot = s
      /\ \A j \in 1..Len(log) :
           log[j].slot.o \in ({log[i].node} \cup Desc(heap, log[i].node)) => j < i
      /\ log[i].new # log[i].node =>
           \A j \in 1..Len(log) :
             log[j].slot.o \notin ({log[i].new} \cup Desc(heap, log[i].new))

\* the rewriter has put an operator over two values in the place of a child,
\* and has then been invoked on the parent
C34_Witness ==
  /\ call = "nodesRewriteExprPostOrder"
  /\ AllContinue
  /\ \E i \in 1..Len(log) :
       /\ log[i].new # log[i].node
       /\ heap[log[i].new].kind = "OPERATOR"
       /\ Desc(h0, log[i].node) # {}
       /\ i < Len(log)

\* a run that has met nothing yet, its result not yet CONTINUE
Untouched == [Run0(heap, MaxRepl, MaxStops) EXCEPT !.res = DEAL_RES_END]

\* the run that has made no call and whose result is CONTINUE
NoCall == {[Untouched EXCEPT !.res = DEAL_RES_CONTINUE]}

Orders == {TRAVERSAL_PREORDER, TRAVERSAL_POSTORDER}

\* the engine and the select entry points on what is absent or empty in the
\* present heap make no call and end with CONTINUE
AbsentMakesNoCall ==
  /\ \A o \in Orders :
       /\ walkNode(Untouched, NULL, o) = NoCall
       /\ walkList(Untouched, NULL, o) = NoCall
       /\ rewriteList(Untouched, NULL, o) = NoCall
       /\ \A s \in Slots(heap) :
            Deref(heap, s) = NULL => rewriteNode(Untouched, s, o) = NoCall
       /\ \A l \in 1..Len(heap) :
            (heap[l].kind = "LIST" /\ heap[l].elems = <<>>) =>
              /\ walkList(Untouched, l, o) = NoCall
              /\ rewriteList(Untouched, l, o) = NoCall
  /\ \A c \in Clauses :
       /\ nodesWalkSelectStmt(Untouched, NULL, c) = {[run |-> Untouched, ret |-> "void"]}
       /\ nodesRewriteSelectStmt(Untouched, NULL, c) = {[run |-> Untouched, ret |-> "void"]}

(***************************************************************************)
(* C35: walkNode on no node, rewriteNode on an empty slot, the list        *)
(* functions on no list or on an empty list invoke no callback and return  *)
(* CONTINUE, and the select entry points on no statement invoke none;      *)
(* hence, when the callback always answers CONTINUE and replaces nothing,  *)
(* every child that is present of every node visited is visited, whatever  *)
(* children are absent beside it, and the traversal ends with CONTINUE.    *)
(***************************************************************************)
C35_AbsentIsContinue ==
  /\ AbsentMakesNoCall
  /\ (call \in WalkCalls \cup RewriteCalls /\ AllContinue /\ NothingReplaced) =>
       /\ res = DEAL_RES_CONTINUE
       /\ \A n \in Visited :
            \A s \in ChildSlots(h0, n) :
              Deref(h0, s) # NULL => Deref(h0, s) \in Visited

\* a walk of an operator without left operand has come to the right operand
C35_Witness ==
  /\ call = "nodesWalkExpr"
  /\ AllContinue
  /\ h0[start.p].kind = "OPERATOR"
  /\ h0[start.p].f[1] = NULL
  /\ h0[start.p].f[2] # NULL
  /\ h0[start.p].f[2] \in Visited

\* the pointer field of SSelectStmt a clause-attaching function assigns
ClauseField(name) ==
  CASE name = "addWhereClause"        -> 2
    [] name = "addPartitionByClause"  -> 3
    [] name = "addWindowClauseClause" -> 4
    [] name = "addGroupByClause"      -> 5
    [] name = "addHavingClause"       -> 6
    [] name = "addOrderByClause"      -> 7
    [] name = "addLimitClause"        -> 9
    [] name = "addSlimitClause"       -> 10

\* the clause-attaching function of the given name
Attaches(name, c, pStmt, pClause, trapped) ==
  CASE name = "addWhereClause"        -> addWhereClause(c, pStmt, pClause, trapped)
    [] name = "addPartitionByClause"  -> addPartitionByClause(c, pStmt, pClause, trapped)
    [] name = "addWindowClauseClause" -> addWindowClauseClause(c, pStmt, pClause, trapped)
    [] name = "addGroupByClause"      -> addGroupByClause(c, pStmt, pClause, trapped)
    [] name = "addHavingClause"       -> addHavingClause(c, pStmt, pClause, trapped)
    [] name = "addOrderByClause"      -> addOrderByClause(c, pStmt, pClause, trapped)
    [] name = "addLimitClause"        -> addLimitClause(c, pStmt, pClause, trapped)
    [] name = "addSlimitClause"       -> addSlimitClause(c, pStmt, pClause, trapped)

(***************************************************************************)
(* C36: a clause-attaching call that is given a statement returns that     *)
(* statement; given a SelectStmt it stores its clause in its own field of  *)
(* the statement and changes no other field of it, no other object and not *)
(* the valid flag; given a node of any other kind it changes nothing.      *)
(***************************************************************************)
C36_AttachesOwnClauseOnly ==
  [][(call' \in ClauseAttaching /\ Top(2).p # NULL) =>
       /\ heap[Top(2).p].kind = "SELECT_STMT"
       /\ ret' = Top(2).p
       /\ valid' = valid
       /\ heap' = [heap EXCEPT ![Top(2).p].f[ClauseField(call')] = Top(1).p]
       /\ \A n \in 1..Len(heap) :
            heap[n].kind \notin {"SELECT_STMT", "LIST"} =>
              \A t \in Trapped :
                Attaches(call', Cxt, n, Top(1).p, t) = [Cxt EXCEPT !.ret = n]]_vars

\* a where predicate has been attached to a statement that selects every
\* column and has a from-table
C36_Witness ==
  /\ call = "addWhereClause"
  /\ ret # NULL
  /\ ret # Fault
  /\ heap[ret].isStar
  /\ heap[ret].f[1] # NULL
  /\ heap[ret].f[2] # NULL

\* (db, tbname) is registered in the catalog
Registered(db, tbname) == db \in DOMAIN meta_ /\ tbname \in DOMAIN meta_[db]

\* every SSchema of the table t has been filled by addColumn
Filled(t) == \A i \in 1..Len(t.schema) : t.schema[i].colId = i

\* C37: a catalogGetTableMeta that returns leaves meta_, index_ and id_ as
\* they were; for a pair that is not registered it returns
\* TSDB_CODE_TSC_INVALID_TABLE_NAME and *pTableMeta is what it was; for a
\* registered pair it returns TSDB_CODE_SUCCESS and *pTableMeta has the uid,
\* the table type, numOfTags, numOfColumns and the numOfTags + numOfColumns
\* SSchema entries of the registered schema.
C37_LookupCopiesRegisteredSchema ==
  [][(call' = "catalogGetTableMeta" /\ code' # "fault") =>
       /\ meta_' = meta_
       /\ index_' = index_
       /\ id_' = id_
       /\ IF ~Registered(pSName'.dbname, pSName'.tname)
            THEN /\ code' = TSDB_CODE_TSC_INVALID_TABLE_NAME
                 /\ pTableMeta' = pTableMeta
            ELSE LET src == meta_[pSName'.dbname][pSName'.tname].schema
                 IN  /\ code' = TSDB_CODE_SUCCESS
                     /\ pTableMeta'.uid = src.uid
                     /\ pTableMeta'.tableType = src.tableType
                     /\ pTableMeta'.tableInfo.numOfTags = src.tableInfo.numOfTags
                     /\ pTableMeta'.tableInfo.numOfColumns = src.tableInfo.numOfColumns
                     /\ Len(pTableMeta'.schema) =
                          src.tableInfo.numOfTags + src.tableInfo.numOfColumns
                     /\ \A i \in 1..Len(pTableMeta'.schema) :
                          pTableMeta'.schema[i] = src.schema[i]]_vars

\* a lookup of a name that is not registered has left the copy of a super
\* table, with all its columns and its tag, that an earlier lookup returned
C37_Witness ==
  /\ call = "catalogGetTableMeta"
  /\ code = TSDB_CODE_TSC_INVALID_TABLE_NAME
  /\ ~Registered(pSName.dbname, pSName.tname)
  /\ pTableMeta # NoTableMeta
  /\ pTableMeta.tableInfo.numOfTags = 1
  /\ pTableMeta.uid > 0
  /\ Filled(pTableMeta)

\* C38: the uids handed out by createTableBuilder, createSubTable and
\* createSmaIndex, in the order of the calls, start at 1 and increase
\* strictly, so they are pairwise distinct; two tables of the catalog, two SMA
\* indexes, and a table and an SMA index, never have the same uid.
C38_UidsIncreaseFromOne ==
  /\ Len(handed) > 0 => handed[1] = 1
  /\ \A i, j \in 1..Len(handed) : i < j => handed[i] < handed[j]
  /\ \A db \in DOMAIN meta_ : \A t1, t2 \in DOMAIN meta_[db] :
       t1 # t2 => meta_[db][t1].schema.uid # meta_[db][t2].schema.uid
  /\ \A s \in DOMAIN index_ : \A i, j \in 1..Len(index_[s]) :
       i # j => index_[s][i].dstTbUid # index_[s][j].dstTbUid
  /\ \A s \in DOMAIN index_ : \A i \in 1..Len(index_[s]) :
       \A db \in DOMAIN meta_ : \A t \in DOMAIN meta_[db] :
         index_[s][i].dstTbUid # meta_[db][t].schema.uid

\* a child table got the last of MaxUid uids, after its super table
C38_Witness ==
  /\ Len(handed) = MaxUid
  /\ \E db \in DOMAIN meta_ : \E t \in DOMAIN meta_[db] :
       /\ meta_[db][t].schema.tableType = TSDB_CHILD_TABLE
       /\ meta_[db][t].schema.uid = handed[Len(handed)]

=============================================================================
